---- MODULE Spec2Model ----
(***************************************************************************)
(* A model of the payway-ts client (src/src/client.ts): the payload        *)
(* builders, the request signature, and execute with its await points.     *)
(*                                                                         *)
(* JavaScript strings are TLA+ strings (TLC evaluates Len, \o and SubSeq   *)
(* on them); the characters are printable ASCII plus tab, LF and CR, for   *)
(* which UTF-8 is one byte per character.  A JavaScript value is a record  *)
(* [kind, val] whose kind is the result of typeof, with "null" and         *)
(* "undefined" kept apart.  A JavaScript object whose key order matters    *)
(* (params, body, fields) is a sequence of [key, value] entries in         *)
(* insertion order.                                                        *)
(***************************************************************************)
EXTENDS Integers, Sequences, FiniteSets, TLC

VARIABLES clients, built, calls

vars == <<clients, built, calls>>

(***************************************************************************)
(* JavaScript values                                                       *)
(***************************************************************************)
Undefined == [kind |-> "undefined", val |-> 0]
Null == [kind |-> "null", val |-> 0]
Str(s) == [kind |-> "string", val |-> s]
Num(n) == [kind |-> "number", val |-> n]
Bool(b) == [kind |-> "boolean", val |-> b]
Obj(entries) == [kind |-> "object", val |-> entries]
Entry(k, v) == [key |-> k, value |-> v]

\* new Error(message): an error object is its message and the own properties
\* set on it besides
Error(message) == [message |-> message, props |-> <<>>]
NoError == Error("")

\* v != null  (loose inequality: false for null and for undefined only)
NotNullish(v) == v.kind \notin {"null", "undefined"}

CharAt(s, i) == SubSeq(s, i, i)

Digits == "0123456789"

RECURSIVE NatToStr(_)
NatToStr(n) ==
  IF n < 10 THEN CharAt(Digits, n + 1)
  ELSE NatToStr(n \div 10) \o CharAt(Digits, (n % 10) + 1)

\* Number.prototype.toString for the integers
NumToStr(n) == IF n < 0 THEN "-" \o NatToStr(0 - n) ELSE NatToStr(n)

\* String(value)
String(v) ==
  CASE v.kind = "string" -> v.val
    [] v.kind = "number" -> NumToStr(v.val)
    [] v.kind = "boolean" -> (IF v.val THEN "true" ELSE "false")
    [] v.kind = "null" -> "null"
    [] v.kind = "undefined" -> "undefined"
    [] v.kind = "object" -> "[object Object]"

\* Object lookup: obj[key], undefined when the key is absent
HasKey(obj, k) == \E i \in 1..Len(obj) : obj[i].key = k
Get(obj, k) ==
  IF HasKey(obj, k)
  THEN obj[CHOOSE i \in 1..Len(obj) : obj[i].key = k].value
  ELSE Undefined

\* obj[key] = value: in place when the key exists, else appended last
SetField(obj, k, v) ==
  IF HasKey(obj, k)
  THEN [i \in 1..Len(obj) |-> IF obj[i].key = k THEN Entry(k, v) ELSE obj[i]]
  ELSE Append(obj, Entry(k, v))

Keys(obj) == [i \in 1..Len(obj) |-> obj[i].key]
Values(obj) == [i \in 1..Len(obj) |-> obj[i].value]

(***************************************************************************)
(* utils.ts: trim                                                          *)
(***************************************************************************)
WhiteSpace == {" ", "\t", "\n", "\r"}

RECURSIVE TrimStart(_)
TrimStart(s) ==
  IF Len(s) > 0 /\ CharAt(s, 1) \in WhiteSpace
  THEN TrimStart(SubSeq(s, 2, Len(s)))
  ELSE s

RECURSIVE TrimEnd(_)
TrimEnd(s) ==
  IF Len(s) > 0 /\ CharAt(s, Len(s)) \in WhiteSpace
  THEN TrimEnd(SubSeq(s, 1, Len(s) - 1))
  ELSE s

\* String.prototype.trimStart in the place of trim
StringTrimStartOnly(s) == TrimStart(s)

\* String.prototype.trim
StringTrim(s) == TrimEnd(TrimStart(s))

trim(value) == IF value.kind = "string" THEN Str(StringTrim(value.val)) ELSE value

(***************************************************************************)
(* Buffer.from(d).toString("base64")                                       *)
(***************************************************************************)
\* the printable ASCII characters, 32..95 and 97..126 (a TLA+ string
\* cannot hold character 96, the backquote)
AsciiLow == " !\"#$%&'()*+,-./0123456789:;<=>?@ABCDEFGHIJKLMNOPQRSTUVWXYZ[\\]^_"
AsciiHigh == "abcdefghijklmnopqrstuvwxyz{|}~"

IndexIn(table, c) ==
  IF \E i \in 1..Len(table) : CharAt(table, i) = c
  THEN CHOOSE i \in 1..Len(table) : CharAt(table, i) = c
  ELSE 0

\* the UTF-8 byte of an ASCII character
CharCode(c) ==
  CASE c = "\t" -> 9
    [] c = "\n" -> 10
    [] c = "\r" -> 13
    [] IndexIn(AsciiLow, c) > 0 -> 31 + IndexIn(AsciiLow, c)
    [] OTHER -> 96 + IndexIn(AsciiHigh, c)

Utf8(s) == [i \in 1..Len(s) |-> CharCode(CharAt(s, i))]

B64Alphabet == "ABCDEFGHIJKLMNOPQRSTUVWXYZabcdefghijklmnopqrstuvwxyz0123456789+/"

B64Char(n) == CharAt(B64Alphabet, n + 1)

RECURSIVE Base64Bytes(_)
Base64Bytes(b) ==
  CASE Len(b) = 0 -> ""
    [] Len(b) = 1 ->
         B64Char(b[1] \div 4) \o B64Char((b[1] % 4) * 16) \o "=="
    [] Len(b) = 2 ->
         B64Char(b[1] \div 4) \o B64Char((b[1] % 4) * 16 + b[2] \div 16)
           \o B64Char((b[2] % 16) * 4) \o "="
    [] Len(b) = 3 ->
         B64Char(b[1] \div 4) \o B64Char((b[1] % 4) * 16 + b[2] \div 16)
           \o B64Char((b[2] % 16) * 4 + b[3] \div 64) \o B64Char(b[3] % 64)
    [] OTHER ->
         \* groups of three bytes are encoded independently of one another
         LET half == 3 * (((Len(b) + 2) \div 3) \div 2)
         IN Base64Bytes(SubSeq(b, 1, half)) \o Base64Bytes(SubSeq(b, half + 1, Len(b)))

base64(d) == Base64Bytes(Utf8(d))

(***************************************************************************)
(* JSON.stringify of an object whose values are strings                    *)
(***************************************************************************)
JsonEscapeChar(c) ==
  CASE c = "\"" -> "\\\""
    [] c = "\\" -> "\\\\"
    [] c = "\n" -> "\\n"
    [] c = "\r" -> "\\r"
    [] c = "\t" -> "\\t"
    [] OTHER -> c

RECURSIVE JsonEscape(_)
JsonEscape(s) ==
  IF Len(s) = 0 THEN ""
  ELSE IF Len(s) = 1 THEN JsonEscapeChar(s)
  ELSE JsonEscape(SubSeq(s, 1, Len(s) \div 2))
         \o JsonEscape(SubSeq(s, Len(s) \div 2 + 1, Len(s)))

JsonQuote(s) == "\"" \o JsonEscape(s) \o "\""

RECURSIVE JsonMembers(_)
JsonMembers(entries) ==
  IF Len(entries) = 0 THEN ""
  ELSE JsonQuote(entries[1].key) \o ":" \o JsonQuote(entries[1].value)
         \o (IF Len(entries) > 1 THEN "," ELSE "")
         \o JsonMembers(Tail(entries))

JsonStringify(v) == "{" \o JsonMembers(v.val) \o "}"

(***************************************************************************)
(* date-fns format(date, "yyyyMMddHHmmss"); a Date is its local-time       *)
(* components                                                              *)
(***************************************************************************)
RECURSIVE PadStart(_, _)
PadStart(s, width) == IF Len(s) >= width THEN s ELSE PadStart("0" \o s, width)

format(date) ==
  PadStart(NatToStr(date.year), 4) \o PadStart(NatToStr(date.month), 2)
    \o PadStart(NatToStr(date.day), 2) \o PadStart(NatToStr(date.hours), 2)
    \o PadStart(NatToStr(date.minutes), 2) \o PadStart(NatToStr(date.seconds), 2)

(***************************************************************************)
(* PayWayClient.create_hash: base64 of HMAC-SHA512(api_key, values.join(""))*)
(* The digest is not computed bit by bit: HmacSha512Base64 is a term that  *)
(* determines and is determined by the pair (key, data), the collision-    *)
(* free idealisation of the keyed hash.  What the code decides, the string *)
(* that is signed and the key that signs it, is computed as the code does. *)
(***************************************************************************)
\* values.join(): the default separator, a comma
RECURSIVE JoinWithComma(_)
JoinWithComma(values) ==
  IF Len(values) = 0 THEN ""
  ELSE IF Len(values) = 1 THEN Head(values)
  ELSE Head(values) \o "," \o JoinWithComma(Tail(values))

RECURSIVE Join(_)
Join(values) == IF Len(values) = 0 THEN "" ELSE Head(values) \o Join(Tail(values))

HmacSha512Base64(key, data) ==
  "hmac-sha512/" \o NatToStr(Len(key)) \o "/" \o key \o "/" \o data

\* a signature over the values with their lengths, which keeps the boundaries
RECURSIVE LengthPrefixed(_)
LengthPrefixed(values) ==
  IF Len(values) = 0 THEN ""
  ELSE NatToStr(Len(Head(values))) \o ":" \o Head(values) \o LengthPrefixed(Tail(values))

create_hashLengthPrefixed(this, values) ==
  HmacSha512Base64(this.api_key, LengthPrefixed(values))

create_hash(this, values) == HmacSha512Base64(this.api_key, Join(values))

(***************************************************************************)
(* PayWayClient.create_payload                                             *)
(***************************************************************************)
\* a filter that keeps null: v !== undefined
FilterBodyKeepsNull(body) == SelectSeq(body, LAMBDA e : e.value.kind # "undefined")

\* a filter on truthiness, which drops 0, false and "" as well
FilterBodyTruthy(body) ==
  SelectSeq(body, LAMBDA e : /\ NotNullish(e.value)
                             /\ e.value \notin {Num(0), Bool(FALSE), Str("")})

\* Object.fromEntries(Object.entries(body).filter(([_k, v]) => v != null))
FilterBody(body) == SelectSeq(body, LAMBDA e : NotNullish(e.value))

\* Object.values(body).map(String)
BodyStrings(body) == [i \in 1..Len(body) |-> String(body[i].value)]

\* the merchant id signed before the timestamp
SignedValuesMerchantFirst(this, body, date) ==
  <<this.merchant_id, format(date)>> \o BodyStrings(FilterBody(body))

\* the array handed to create_hash
SignedValues(this, body, date) ==
  <<format(date), this.merchant_id>> \o BodyStrings(FilterBody(body))

\* the body values stored as they are: fields[key] = value
AddBodyFieldsRaw(fields, body) ==
  fields \o [i \in 1..Len(body) |-> Entry(body[i].key, body[i].value)]

RECURSIVE AddBodyFields(_, _)
AddBodyFields(fields, body) ==
  IF Len(body) = 0 THEN fields
  ELSE AddBodyFields(
         SetField(fields, Head(body).key, Str(String(Head(body).value))),
         Tail(body))

create_payload(this, body, date) ==
  LET filtered == FilterBody(body)
      req_time == format(date)
      hash == create_hash(this, SignedValues(this, body, date))
      fields == <<Entry("req_time", Str(req_time)),
                  Entry("merchant_id", Str(this.merchant_id))>>
  IN SetField(AddBodyFields(fields, filtered), "hash", Str(hash))

(***************************************************************************)
(* The build methods.  A build returns [outcome, payload, error, engine]:   *)
(* the payload of a build that threw is NoPayload, and engine lists the    *)
(* signing and encryption calls the build made, in order.                  *)
(***************************************************************************)
NoPayload == [fields |-> <<>>, hash |-> Undefined, url |-> "", method |-> ""]

Returned(payload, engine) ==
  [outcome |-> "returned", payload |-> payload, error |-> NoError, engine |-> engine]
Threw(message, engine) ==
  [outcome |-> "threw", payload |-> NoPayload, error |-> Error(message), engine |-> engine]

PurchasePath == "api/payment-gateway/v1/payments/purchase"
CheckTransactionPath == "api/payment-gateway/v1/payments/check-transaction"
TransactionListPath == "api/payment-gateway/v1/payments/transaction-list"

\* if (typeof url === "string") processed = base64(url)
ProcessUrl(url) == IF url.kind = "string" THEN Str(base64(url.val)) ELSE url

\* a structured deeplink encoded from String(object) instead of its JSON text
ProcessDeeplinkToString(return_deeplink) ==
  IF return_deeplink.kind \in {"string", "object"}
  THEN Str(base64(String(return_deeplink)))
  ELSE return_deeplink

ProcessDeeplink(return_deeplink) ==
  IF return_deeplink.kind = "string" THEN Str(base64(return_deeplink.val))
  ELSE IF return_deeplink.kind = "object"
       THEN Str(base64(JsonStringify(return_deeplink)))
       ELSE return_deeplink

\* the body taken from the params object in the order the caller wrote it
ProcessedParam(params, key) ==
  CASE key \in {"firstname", "lastname", "email", "phone"} -> trim(Get(params, key))
    [] key \in {"return_url", "cancel_url", "continue_success_url"} -> ProcessUrl(Get(params, key))
    [] key = "return_deeplink" -> ProcessDeeplink(Get(params, key))
    [] OTHER -> Get(params, key)

TransactionBodyCallerOrder(params) ==
  LET signed == SelectSeq(params, LAMBDA e : e.key \notin {"view_type", "payment_gate", "pwt"})
  IN [i \in 1..Len(signed) |-> Entry(signed[i].key, ProcessedParam(params, signed[i].key))]

\* the object literal handed to create_payload, in the order it is written
TransactionBody(params) ==
  << Entry("tran_id", Get(params, "tran_id")),
     Entry("amount", Get(params, "amount")),
     Entry("items", Get(params, "items")),
     Entry("shipping", Get(params, "shipping")),
     Entry("firstname", trim(Get(params, "firstname"))),
     Entry("lastname", trim(Get(params, "lastname"))),
     Entry("email", trim(Get(params, "email"))),
     Entry("phone", trim(Get(params, "phone"))),
     Entry("type", Get(params, "type")),
     Entry("payment_option", Get(params, "payment_option")),
     Entry("return_url", ProcessUrl(Get(params, "return_url"))),
     Entry("cancel_url", ProcessUrl(Get(params, "cancel_url"))),
     Entry("continue_success_url", ProcessUrl(Get(params, "continue_success_url"))),
     Entry("return_deeplink", ProcessDeeplink(Get(params, "return_deeplink"))),
     Entry("currency", Get(params, "currency")),
     Entry("custom_fields", Get(params, "custom_fields")),
     Entry("return_params", Get(params, "return_params")),
     Entry("payout", Get(params, "payout")),
     Entry("lifetime", Get(params, "lifetime")),
     Entry("additional_params", Get(params, "additional_params")),
     Entry("google_play_token", Get(params, "google_play_token")),
     Entry("skip_success_page", Get(params, "skip_success_page")) >>

\* if (view_type != null) fields.view_type = view_type
AddViewType(fields, view_type) ==
  IF NotNullish(view_type) THEN SetField(fields, "view_type", view_type) ELSE fields

\* type written after the signature as a new last key
AddTypeAsLastKey(fields, type) ==
  IF NotNullish(type)
  THEN Append(SelectSeq(fields, LAMBDA e : e.key # "type"), Entry("type", type))
  ELSE fields

\* if (type != null) fields.type = type
AddType(fields, type) ==
  IF NotNullish(type) THEN SetField(fields, "type", type) ELSE fields

\* a hash computed again for the returned record, over every value of fields
PayloadHashedAgain(this, fields, path) ==
  [fields |-> fields, hash |-> Str(create_hash(this, BodyStrings(fields))),
   url |-> this.base_url \o path, method |-> "POST"]

\* base_url and path joined with a slash put in when base_url does not end in one
PayloadSlashJoined(this, fields, path) ==
  [fields |-> fields, hash |-> Get(fields, "hash"),
   url |-> (IF SubSeq(this.base_url, Len(this.base_url), Len(this.base_url)) = "/"
            THEN this.base_url ELSE this.base_url \o "/") \o path,
   method |-> "POST"]

Payload(this, fields, path) ==
  [fields |-> fields, hash |-> Get(fields, "hash"),
   url |-> this.base_url \o path, method |-> "POST"]

\* view_type handed to create_payload with the signed parameters
buildTransactionPayloadSignsViewType(this, params, date) ==
  LET body == Append(TransactionBody(params), Entry("view_type", Get(params, "view_type")))
  IN Returned(Payload(this, AddType(create_payload(this, body, date), Get(params, "type")),
                      PurchasePath), <<"create_hash">>)

buildTransactionPayload(this, params, date) ==
  LET fields == create_payload(this, TransactionBody(params), date)
  IN Returned(Payload(this,
        AddType(AddViewType(fields, Get(params, "view_type")), Get(params, "type")),
        PurchasePath), <<"create_hash">>)

CheckTransactionBody(tran_id) == << Entry("tran_id", tran_id) >>

buildCheckTransactionPayload(this, tran_id, date) ==
  Returned(Payload(this, create_payload(this, CheckTransactionBody(tran_id), date),
                   CheckTransactionPath), <<"create_hash">>)

\* the whole params object handed to create_payload
TransactionListBodyAllParams(params) == params

TransactionListBody(params) ==
  << Entry("from_date", Get(params, "from_date")),
     Entry("to_date", Get(params, "to_date")),
     Entry("from_amount", Get(params, "from_amount")),
     Entry("to_amount", Get(params, "to_amount")),
     Entry("status", Get(params, "status")) >>

buildTransactionListPayload(this, params, date) ==
  Returned(Payload(this, create_payload(this, TransactionListBody(params), date),
                   TransactionListPath), <<"create_hash">>)

(***************************************************************************)
(* The pre-authorization builders.  Their code is not in this revision of  *)
(* client.ts; they are modelled from the design document (sections 4.1,    *)
(* 4.2, 6 and 7) and the tests of docs/error-handling.md.                  *)
(***************************************************************************)
PreAuthBase == "api/merchant-portal/merchant-access/online-transaction/"
PreAuthCompletionPath == PreAuthBase \o "pre-auth-completion"
PreAuthCompletionWithPayoutPath == PreAuthBase \o "pre-auth-completion-with-payout"
PreAuthCancellationPath == PreAuthBase \o "pre-auth-cancellation"

RsaKeyRequired == "RSA public key is required for pre-auth operations"

\* plaintext bytes per encrypted chunk
ChunkSize == 117

\* a chunk boundary one byte early: 117 bytes split into 117 and none
RECURSIVE ChunksSplitAtFull(_)
ChunksSplitAtFull(plain) ==
  IF Len(plain) < ChunkSize THEN <<plain>>
  ELSE <<SubSeq(plain, 1, ChunkSize)>>
         \o ChunksSplitAtFull(SubSeq(plain, ChunkSize + 1, Len(plain)))

RECURSIVE Chunks(_)
Chunks(plain) ==
  IF Len(plain) <= ChunkSize THEN <<plain>>
  ELSE <<SubSeq(plain, 1, ChunkSize)>> \o Chunks(SubSeq(plain, ChunkSize + 1, Len(plain)))

\* One chunk under the public key; pad is the random padding of the
\* encryption.  A term, like HmacSha512Base64.
RsaEncrypt(key, chunk, pad) ==
  "<rsa/" \o key \o "/" \o NatToStr(pad) \o "/" \o chunk \o ">"

EncryptChunks(key, plain, pad) ==
  [i \in 1..Len(Chunks(plain)) |-> RsaEncrypt(key, Chunks(plain)[i], pad)]

encrypt(this, plain, pad) == base64(Join(EncryptChunks(this.rsa_public_key.val, plain, pad)))

\* the sensitive fields in their canonical string form
Serialize(body) ==
  JsonStringify(Obj([i \in 1..Len(body) |-> Entry(body[i].key, String(body[i].value))]))

HasRsaKey(this) == this.rsa_public_key.kind = "string" /\ this.rsa_public_key.val # ""

\* the key looked for by the encryption step only, after the signing setup
PreAuthPayloadLateGuard(this, body, path, date, pad) ==
  IF ~HasRsaKey(this) THEN Threw(RsaKeyRequired, <<"encrypt">>)
  ELSE LET merchant_auth == encrypt(this, Serialize(body), pad)
           request_time == format(date)
           hash == create_hash(this, <<merchant_auth, request_time, this.merchant_id>>)
           fields == << Entry("merchant_auth", Str(merchant_auth)),
                        Entry("request_time", Str(request_time)),
                        Entry("merchant_id", Str(this.merchant_id)),
                        Entry("hash", Str(hash)) >>
       IN Returned(Payload(this, fields, path), <<"encrypt", "create_hash">>)

\* the signature led by the timestamp, as in create_payload
PreAuthPayloadTimestampFirst(this, body, path, date, pad) ==
  IF ~HasRsaKey(this) THEN Threw(RsaKeyRequired, <<>>)
  ELSE LET merchant_auth == encrypt(this, Serialize(body), pad)
           request_time == format(date)
           hash == create_hash(this, <<request_time, this.merchant_id, merchant_auth>>)
           fields == << Entry("merchant_auth", Str(merchant_auth)),
                        Entry("request_time", Str(request_time)),
                        Entry("merchant_id", Str(this.merchant_id)),
                        Entry("hash", Str(hash)) >>
       IN Returned(Payload(this, fields, path), <<"encrypt", "create_hash">>)

PreAuthPayload(this, body, path, date, pad) ==
  IF ~HasRsaKey(this) THEN Threw(RsaKeyRequired, <<>>)
  ELSE LET merchant_auth == encrypt(this, Serialize(body), pad)
           request_time == format(date)
           hash == create_hash(this, <<merchant_auth, request_time, this.merchant_id>>)
           fields == << Entry("merchant_auth", Str(merchant_auth)),
                        Entry("request_time", Str(request_time)),
                        Entry("merchant_id", Str(this.merchant_id)),
                        Entry("hash", Str(hash)) >>
       IN Returned(Payload(this, fields, path), <<"encrypt", "create_hash">>)

CompletePreAuthBody(params) ==
  << Entry("tran_id", Get(params, "tran_id")),
     Entry("complete_amount", Get(params, "complete_amount")) >>

buildCompletePreAuthPayload(this, params, date, pad) ==
  PreAuthPayload(this, CompletePreAuthBody(params), PreAuthCompletionPath, date, pad)

CompletePreAuthWithPayoutBody(params) ==
  << Entry("tran_id", Get(params, "tran_id")),
     Entry("complete_amount", Get(params, "complete_amount")),
     Entry("payout", Get(params, "payout")) >>

buildCompletePreAuthWithPayoutPayload(this, params, date, pad) ==
  PreAuthPayload(this, CompletePreAuthWithPayoutBody(params),
                 PreAuthCompletionWithPayoutPath, date, pad)

CancelPreAuthBody(params) == << Entry("tran_id", Get(params, "tran_id")) >>

buildCancelPreAuthPayload(this, params, date, pad) ==
  PreAuthPayload(this, CancelPreAuthBody(params), PreAuthCancellationPath, date, pad)

(***************************************************************************)
(* PayWayClient.execute.  The transport is the global fetch: a response    *)
(* is [status, statusText, contentType, body], ok is derived from status,  *)
(* and its body can be read once.                                          *)
(***************************************************************************)
AbapayMessage ==
  "Cannot execute server-to-server call with payment_option \"abapay\". "
    \o "ABA PayWay returns HTML for abapay which should be displayed via client-side form submission. "
    \o "Use buildTransactionPayload() and create a form in the browser instead. "
    \o "If you really need to get the HTML on the server, pass { allowHtml: true }."

HtmlMessage ==
  "Received HTML response but expected JSON. "
    \o "This usually means payment_option \"abapay\" was used, which returns an HTML checkout page. "
    \o "Use client-side form submission for abapay payments. "
    \o "If you intentionally want the HTML, pass { allowHtml: true }."

UnexpectedMessage(contentType) ==
  "Unexpected content-type: " \o contentType \o ". "
    \o "Response is not JSON and allowHtml is false."

HttpErrorMessage(response) == "HTTP error! status: " \o NumToStr(response.status)

FetchFailed == "TypeError: fetch failed"
BodyUnusable == "TypeError: Body is unusable"
JsonSyntaxError == "SyntaxError: Unexpected token in JSON"

\* const { allowHtml = false } = options
AllowHtml(options) ==
  IF Get(options, "allowHtml").kind = "undefined" THEN FALSE
  ELSE Get(options, "allowHtml") = Bool(TRUE)

\* payload.fields.payment_option === "abapay" && !allowHtml
Guarded(payload, allowHtml) ==
  Get(payload.fields, "payment_option") = Str("abapay") /\ ~allowHtml

\* a form that leaves the signature out of the body
FormDataWithoutHash(fields) ==
  LET sent == SelectSeq(fields, LAMBDA e : e.key # "hash")
  IN [i \in 1..Len(sent) |-> Entry(sent[i].key, String(sent[i].value))]

\* formData.append(key, value) for each entry of fields; append stores strings
FormData(fields) == [i \in 1..Len(fields) |-> Entry(fields[i].key, String(fields[i].value))]

Request(payload) ==
  [url |-> payload.url, method |-> payload.method, body |-> FormData(payload.fields)]

NoRequest == [url |-> "", method |-> "", body |-> <<>>]
NoResponse == [status |-> 0, statusText |-> "", contentType |-> Null, body |-> ""]

ResponseOk(response) == response.status \in 200..299

\* response.headers.get("content-type") || ""
ContentType(response) ==
  IF response.contentType.kind = "string" THEN response.contentType.val ELSE ""

\* String.prototype.includes
Includes(s, sub) ==
  \E i \in 1..(Len(s) - Len(sub) + 1) : SubSeq(s, i, i + Len(sub) - 1) = sub

\* JSON.parse on the bodies the gateway double answers with
JsonBodies ==
  { "{\"status\":\"APPROVED\"}", "{\"success\":true}", "{\"code\":\"4\"}" }
IsJson(body) == body \in JsonBodies
JsonParse(body) ==
  CASE body = "{\"status\":\"APPROVED\"}" -> [kind |-> "json", val |-> <<Entry("status", Str("APPROVED"))>>]
    [] body = "{\"success\":true}" -> [kind |-> "json", val |-> <<Entry("success", Bool(TRUE))>>]
    [] body = "{\"code\":\"4\"}" -> [kind |-> "json", val |-> <<Entry("code", Str("4"))>>]

\* One execute invocation: pc is its position (idle; fetch, json, text,
\* try_json, catch_text: suspended at that await; returned; threw), fetches
\* counts its calls of fetch.
Idle ==
  [pc |-> "idle", client |-> 0, payload |-> NoPayload, options |-> <<>>,
   fetches |-> 0, request |-> NoRequest, response |-> NoResponse,
   bodyUsed |-> FALSE, value |-> Undefined, error |-> NoError]

\* the abapay guard evaluated once the request has been sent
ExecuteStartFetchFirst(c, payload, options) ==
  IF Guarded(payload, AllowHtml(options))
  THEN [Idle EXCEPT !.pc = "threw", !.client = c, !.payload = payload,
                    !.options = options, !.fetches = 1, !.request = Request(payload),
                    !.error = Error(AbapayMessage)]
  ELSE [Idle EXCEPT !.pc = "fetch", !.client = c, !.payload = payload,
                    !.options = options, !.fetches = 1, !.request = Request(payload)]

\* execute from its first line to its first await or throw
ExecuteStart(c, payload, options) ==
  IF Guarded(payload, AllowHtml(options))
  THEN [Idle EXCEPT !.pc = "threw", !.client = c, !.payload = payload,
                    !.options = options, !.error = Error(AbapayMessage)]
  ELSE [Idle EXCEPT !.pc = "fetch", !.client = c, !.payload = payload,
                    !.options = options, !.fetches = 1, !.request = Request(payload)]

\* an HTML answer read as text whether or not allowHtml is set
AfterFetchHtmlAlways(call, response) ==
  LET got == [call EXCEPT !.response = response]
      contentType == ContentType(response)
  IN IF ~ResponseOk(response)
     THEN [got EXCEPT !.pc = "threw", !.error = Error(HttpErrorMessage(response))]
     ELSE IF Includes(contentType, "application/json")
     THEN [got EXCEPT !.pc = "json", !.bodyUsed = TRUE]
     ELSE IF Includes(contentType, "text/html")
     THEN [got EXCEPT !.pc = "text", !.bodyUsed = TRUE]
     ELSE [got EXCEPT !.pc = "try_json", !.bodyUsed = TRUE]

\* a non-2xx answer met by sending the request once more
AfterFetchRetries(call, response) ==
  LET got == [call EXCEPT !.response = response]
      contentType == ContentType(response)
  IN IF ~ResponseOk(response)
     THEN [call EXCEPT !.pc = "fetch", !.fetches = @ + 1]
     ELSE IF Includes(contentType, "application/json")
     THEN [got EXCEPT !.pc = "json", !.bodyUsed = TRUE]
     ELSE IF Includes(contentType, "text/html")
     THEN IF ~AllowHtml(call.options)
          THEN [got EXCEPT !.pc = "threw", !.error = Error(HtmlMessage)]
          ELSE [got EXCEPT !.pc = "text", !.bodyUsed = TRUE]
     ELSE [got EXCEPT !.pc = "try_json", !.bodyUsed = TRUE]

\* the content type looked at before the status
AfterFetchContentTypeFirst(call, response) ==
  LET got == [call EXCEPT !.response = response]
      contentType == ContentType(response)
  IN IF Includes(contentType, "application/json")
     THEN [got EXCEPT !.pc = "json", !.bodyUsed = TRUE]
     ELSE IF Includes(contentType, "text/html")
     THEN IF ~AllowHtml(call.options)
          THEN [got EXCEPT !.pc = "threw", !.error = Error(HtmlMessage)]
          ELSE [got EXCEPT !.pc = "text", !.bodyUsed = TRUE]
     ELSE IF ~ResponseOk(response)
     THEN [got EXCEPT !.pc = "threw", !.error = Error(HttpErrorMessage(response))]
     ELSE [got EXCEPT !.pc = "try_json", !.bodyUsed = TRUE]

\* from the resolution of fetch to the next await, or to the throw
AfterFetch(call, response) ==
  LET got == [call EXCEPT !.response = response]
      contentType == ContentType(response)
  IN IF ~ResponseOk(response)
     THEN [got EXCEPT !.pc = "threw", !.error = Error(HttpErrorMessage(response))]
     ELSE IF Includes(contentType, "application/json")
     THEN [got EXCEPT !.pc = "json", !.bodyUsed = TRUE]
     ELSE IF Includes(contentType, "text/html")
     THEN IF ~AllowHtml(call.options)
          THEN [got EXCEPT !.pc = "threw", !.error = Error(HtmlMessage)]
          ELSE [got EXCEPT !.pc = "text", !.bodyUsed = TRUE]
     ELSE [got EXCEPT !.pc = "try_json", !.bodyUsed = TRUE]

\* return await response.json()
AfterJson(call) ==
  IF IsJson(call.response.body)
  THEN [call EXCEPT !.pc = "returned", !.value = JsonParse(call.response.body)]
  ELSE [call EXCEPT !.pc = "threw", !.error = Error(JsonSyntaxError)]

\* return await response.text(), the body not read before
AfterText(call) == [call EXCEPT !.pc = "returned", !.value = Str(call.response.body)]

\* try { return await response.json() } catch { ... }
AfterTryJson(call) ==
  IF IsJson(call.response.body)
  THEN [call EXCEPT !.pc = "returned", !.value = JsonParse(call.response.body)]
  ELSE IF ~AllowHtml(call.options)
       THEN [call EXCEPT !.pc = "threw",
                         !.error = Error(UnexpectedMessage(ContentType(call.response)))]
       ELSE [call EXCEPT !.pc = "catch_text"]

\* return await response.text() in the catch block: json() has read the body
AfterCatchText(call) ==
  IF call.bodyUsed
  THEN [call EXCEPT !.pc = "threw", !.error = Error(BodyUnusable)]
  ELSE [call EXCEPT !.pc = "returned", !.value = Str(call.response.body)]

(***************************************************************************)
(* Inputs                                                                  *)
(***************************************************************************)
\* new PayWayClient(base_url, merchant_id, api_key[, rsa_public_key])
Credentials ==
  << [base_url |-> "https://checkout-sandbox.payway.com.kh/", merchant_id |-> "m1",
      api_key |-> "k1", rsa_public_key |-> Str("PEM-A")],
     [base_url |-> "http://example.com", merchant_id |-> "1",
      api_key |-> "1", rsa_public_key |-> Undefined] >>

ClientIds == DOMAIN Credentials

\* readings of the clock (new Date())
Dates ==
  { [year |-> 2024, month |-> 1, day |-> 5, hours |-> 9, minutes |-> 3, seconds |-> 7],
    [year |-> 2025, month |-> 12, day |-> 31, hours |-> 23, minutes |-> 59, seconds |-> 59] }

\* the largest number of keys a caller writes in one params object
MaxParams == 2

Deeplink == Obj(<<Entry("android_scheme", "a://x"), Entry("ios_scheme", "i://y")>>)

\* CreateTransactionParams (types.ts), and a key the interface does not declare
TransactionValues(key) ==
  CASE key = "tran_id" -> {Str("A1"), Str("A"), Str(""), Null}
    [] key = "amount" -> {Num(2), Str("12"), Null}
    [] key = "items" -> {Str("W10=")}
    [] key = "shipping" -> {Num(0), Null}
    [] key = "firstname" -> {Str("  John "), Str(" "), Null, Undefined}
    [] key = "lastname" -> {Str("Doe\t"), Str(""), Null}
    [] key = "email" -> {Str(" j@x.io\n"), Str("\t\n"), Null}
    [] key = "phone" -> {Str("012 "), Num(12), Null}
    [] key = "type" -> {Str("pre-auth"), Null}
    [] key = "payment_option" -> {Str("abapay"), Null}
    [] key = "return_url" -> {Str("https://a.io/r?x=1"), Null, Undefined}
    [] key = "cancel_url" -> {Str("u://c"), Null}
    [] key = "continue_success_url" -> {Str("u://s"), Null}
    [] key = "return_deeplink" -> {Str("app://p"), Deeplink, Null}
    [] key = "currency" -> {Str("USD")}
    [] key = "custom_fields" -> {Str("{}")}
    [] key = "return_params" -> {Str("rp")}
    [] key = "payout" -> {Str("[]")}
    [] key = "lifetime" -> {Num(30)}
    [] key = "additional_params" -> {Str("ap")}
    [] key = "google_play_token" -> {Str("tok")}
    [] key = "skip_success_page" -> {Bool(FALSE), Null}
    [] key = "view_type" -> {Str("popup"), Null, Undefined}
    [] key = "payment_gate" -> {Num(0)}
    [] key = "pwt" -> {Str("w")}

\* the keys create_payload signs for create-transaction, in declaration order
TransactionSigned ==
  << "tran_id", "amount", "items", "shipping", "firstname", "lastname", "email",
     "phone", "type", "payment_option", "return_url", "cancel_url",
     "continue_success_url", "return_deeplink", "currency", "custom_fields",
     "return_params", "payout", "lifetime", "additional_params",
     "google_play_token", "skip_success_page" >>

TransactionKeys ==
  {TransactionSigned[i] : i \in DOMAIN TransactionSigned} \cup {"view_type", "payment_gate", "pwt"}

\* TransactionListParams (types.ts)
ListValues(key) ==
  CASE key = "from_date" -> {Str("20240101000000"), Null}
    [] key = "to_date" -> {Str("20240131235959"), Undefined}
    [] key = "from_amount" -> {Str("10"), Num(1), Null}
    [] key = "to_amount" -> {Num(1000), Num(0), Null}
    [] key = "status" -> {Str("APPROVED"), Null}
    [] key = "limit_limit_amount" -> {Num(5)}
    [] key = "limit_additional_params" -> {Str("ap")}

ListSigned == << "from_date", "to_date", "from_amount", "to_amount", "status" >>

ListKeys ==
  {ListSigned[i] : i \in DOMAIN ListSigned} \cup {"limit_limit_amount", "limit_additional_params"}

RECURSIVE Repeat(_, _)
Repeat(c, n) ==
  IF n = 0 THEN "" ELSE IF n = 1 THEN c
  ELSE Repeat(c, n \div 2) \o Repeat(c, n - n \div 2)

\* CompletePreAuthParams, CompletePreAuthWithPayoutParams, CancelPreAuthParams;
\* the payouts of 65, 66 and 183 characters make, with tran_id "A1" and a
\* complete_amount of 100, plaintexts of 117, 118 and 235 bytes
PreAuthValues(key) ==
  CASE key = "tran_id" -> {Str("A1")}
    [] key = "complete_amount" -> {Num(100), Str("100")}
    [] key = "payout" -> {Str("[]"), Str(Repeat("p", 65)), Str(Repeat("p", 66)),
                          Str(Repeat("p", 183))}

PreAuthKeys == {"tran_id", "complete_amount", "payout"}

\* the padding randomness of one encryption
Pads == {0, 1}

EntriesOf(keys, values(_)) ==
  UNION { { Entry(k, v) : v \in values(k) } : k \in keys }

\* the params objects of at most n keys, in every order a caller can write them
RECURSIVE ParamsUpTo(_, _)
ParamsUpTo(entries, n) ==
  IF n = 0 THEN {<<>>}
  ELSE LET shorter == ParamsUpTo(entries, n - 1)
       IN shorter \cup { Append(p, e) : p \in shorter, e \in entries }

DistinctKeys(p) == \A i, j \in 1..Len(p) : p[i].key = p[j].key => i = j

TransactionParams ==
  { p \in ParamsUpTo(EntriesOf(TransactionKeys, TransactionValues), MaxParams) : DistinctKeys(p) }

ListParams ==
  { p \in ParamsUpTo(EntriesOf(ListKeys, ListValues), MaxParams) : DistinctKeys(p) }

\* the pre-auth params interfaces declare their keys as required: a params
\* object holds all of them (the builders read the ones of their interface)
PreAuthParams ==
  { << Entry("tran_id", t), Entry("complete_amount", a), Entry("payout", p) >> :
      t \in PreAuthValues("tran_id"), a \in PreAuthValues("complete_amount"),
      p \in PreAuthValues("payout") }

TranIds == {Str("A1"), Str("ORDER-123"), Str(""), Null}

(***************************************************************************)
(* State.  clients: the constructed clients.  built: the last build call   *)
(* whose result the caller still holds.  calls: the execute invocations.   *)
(***************************************************************************)
NotBuilt ==
  [op |-> "none", client |-> 0, params |-> <<>>,
   date |-> [year |-> 0, month |-> 0, day |-> 0, hours |-> 0, minutes |-> 0, seconds |-> 0],
   pad |-> 0, result |-> Threw("", <<>>)]

Build(op, c, params, date, pad, result) ==
  [op |-> op, client |-> c, params |-> params, date |-> date, pad |-> pad,
   result |-> result]

MaxCalls == 1
CallIds == 1..MaxCalls

Init ==
  /\ clients = Credentials
  /\ built = NotBuilt
  /\ calls = [i \in CallIds |-> Idle]

\* One build call.  The caller holds one result at a time: a build is made
\* when the last result has been dropped (Discard) or handed to execute.
BuildTransaction ==
  /\ built.op = "none"
  /\ \E c \in ClientIds, params \in TransactionParams, date \in Dates :
       built' = Build("buildTransactionPayload", c, params, date, 0,
                      buildTransactionPayload(clients[c], params, date))
  /\ UNCHANGED <<clients, calls>>

BuildCheckTransaction ==
  /\ built.op = "none"
  /\ \E c \in ClientIds, tran_id \in TranIds, date \in Dates :
       built' = Build("buildCheckTransactionPayload", c, <<Entry("tran_id", tran_id)>>,
                      date, 0, buildCheckTransactionPayload(clients[c], tran_id, date))
  /\ UNCHANGED <<clients, calls>>

BuildTransactionList ==
  /\ built.op = "none"
  /\ \E c \in ClientIds, params \in ListParams, date \in Dates :
       built' = Build("buildTransactionListPayload", c, params, date, 0,
                      buildTransactionListPayload(clients[c], params, date))
  /\ UNCHANGED <<clients, calls>>

BuildCompletePreAuth ==
  /\ built.op = "none"
  /\ \E c \in ClientIds, params \in PreAuthParams, date \in Dates, pad \in Pads :
       built' = Build("buildCompletePreAuthPayload", c, params, date, pad,
                      buildCompletePreAuthPayload(clients[c], params, date, pad))
  /\ UNCHANGED <<clients, calls>>

BuildCompletePreAuthWithPayout ==
  /\ built.op = "none"
  /\ \E c \in ClientIds, params \in PreAuthParams, date \in Dates, pad \in Pads :
       built' = Build("buildCompletePreAuthWithPayoutPayload", c, params, date, pad,
                      buildCompletePreAuthWithPayoutPayload(clients[c], params, date, pad))
  /\ UNCHANGED <<clients, calls>>

BuildCancelPreAuth ==
  /\ built.op = "none"
  /\ \E c \in ClientIds, params \in PreAuthParams, date \in Dates, pad \in Pads :
       built' = Build("buildCancelPreAuthPayload", c, params, date, pad,
                      buildCancelPreAuthPayload(clients[c], params, date, pad))
  /\ UNCHANGED <<clients, calls>>

\* the caller drops the result of the last build
Discard ==
  /\ built.op # "none"
  /\ built' = NotBuilt
  /\ UNCHANGED <<clients, calls>>

Next ==
  \/ BuildTransaction
  \/ BuildCheckTransaction
  \/ BuildTransactionList
  \/ BuildCompletePreAuth
  \/ BuildCompletePreAuthWithPayout
  \/ BuildCancelPreAuth
  \/ Discard

Spec == Init /\ [][Next]_vars

(***************************************************************************)
(* execute, one action per stretch of code between two awaits              *)
(***************************************************************************)
ExecOptions ==
  { <<>>, <<Entry("allowHtml", Bool(FALSE))>>, <<Entry("allowHtml", Bool(TRUE))>> }

Responses ==
  { [status |-> 200, statusText |-> "OK", contentType |-> Str("application/json"),
     body |-> "{\"status\":\"APPROVED\"}"],
    [status |-> 200, statusText |-> "OK", contentType |-> Str("text/html; charset=utf-8"),
     body |-> "<html>Checkout</html>"],
    [status |-> 200, statusText |-> "OK", contentType |-> Str("application/octet-stream"),
     body |-> "{\"success\":true}"],
    [status |-> 200, statusText |-> "OK", contentType |-> Str("application/octet-stream"),
     body |-> "oops"],
    [status |-> 200, statusText |-> "OK", contentType |-> Null, body |-> "oops"],
    [status |-> 200, statusText |-> "OK", contentType |-> Str("application/json"),
     body |-> "<html>Checkout</html>"],
    [status |-> 500, statusText |-> "Internal Server Error", contentType |-> Str("text/html"),
     body |-> "<html>Error</html>"],
    [status |-> 403, statusText |-> "Forbidden", contentType |-> Str("application/json"),
     body |-> "{\"code\":\"4\"}"],
    [status |-> 300, statusText |-> "Multiple Choices", contentType |-> Null,
     body |-> "{\"success\":true}"] }

\* the payloads handed to execute
ExecTransactionParams ==
  { << Entry("payment_option", Str("abapay")), Entry("tran_id", Str("A1")) >>,
    << Entry("payment_option", Str("cards")), Entry("amount", Num(2)) >>,
    << Entry("tran_id", Str("A1")), Entry("view_type", Str("popup")) >> }

ExecDate == [year |-> 2024, month |-> 1, day |-> 5, hours |-> 9, minutes |-> 3, seconds |-> 7]

BuildTransactionForExecute ==
  /\ built.op = "none"
  /\ \E c \in ClientIds, params \in ExecTransactionParams :
       built' = Build("buildTransactionPayload", c, params, ExecDate, 0,
                      buildTransactionPayload(clients[c], params, ExecDate))
  /\ UNCHANGED <<clients, calls>>

BuildCheckTransactionForExecute ==
  /\ built.op = "none"
  /\ \E c \in ClientIds :
       built' = Build("buildCheckTransactionPayload", c, <<Entry("tran_id", Str("A1"))>>,
                      ExecDate, 0,
                      buildCheckTransactionPayload(clients[c], Str("A1"), ExecDate))
  /\ UNCHANGED <<clients, calls>>

\* client.execute(payload, options) with the payload of the last build
ExecuteCall(i) ==
  /\ calls[i].pc = "idle"
  /\ built.result.outcome = "returned"
  /\ \E options \in ExecOptions :
       calls' = [calls EXCEPT ![i] =
                   ExecuteStart(built.client, built.result.payload, options)]
  /\ built' = NotBuilt
  /\ UNCHANGED clients

\* one answer of the transport handed to every invocation that awaits fetch
FetchResolvesShared(i) ==
  /\ calls[i].pc = "fetch"
  /\ \E response \in Responses :
       calls' = [j \in DOMAIN calls |->
                   IF calls[j].pc = "fetch" THEN AfterFetch(calls[j], response)
                   ELSE calls[j]]
  /\ UNCHANGED <<clients, built>>

FetchResolves(i) ==
  /\ calls[i].pc = "fetch"
  /\ \E response \in Responses :
       calls' = [calls EXCEPT ![i] = AfterFetch(calls[i], response)]
  /\ UNCHANGED <<clients, built>>

\* a failed transport answered with a normal return of undefined
FetchRejectsReturnsUndefined(i) ==
  /\ calls[i].pc = "fetch"
  /\ calls' = [calls EXCEPT ![i].pc = "returned"]
  /\ UNCHANGED <<clients, built>>

\* the transport fails: await fetch(...) throws
FetchRejects(i) ==
  /\ calls[i].pc = "fetch"
  /\ calls' = [calls EXCEPT ![i].pc = "threw", ![i].error = Error(FetchFailed)]
  /\ UNCHANGED <<clients, built>>

JsonSettles(i) ==
  /\ calls[i].pc = "json"
  /\ calls' = [calls EXCEPT ![i] = AfterJson(calls[i])]
  /\ UNCHANGED <<clients, built>>

TextSettles(i) ==
  /\ calls[i].pc = "text"
  /\ calls' = [calls EXCEPT ![i] = AfterText(calls[i])]
  /\ UNCHANGED <<clients, built>>

TryJsonSettles(i) ==
  /\ calls[i].pc = "try_json"
  /\ calls' = [calls EXCEPT ![i] = AfterTryJson(calls[i])]
  /\ UNCHANGED <<clients, built>>

CatchTextSettles(i) ==
  /\ calls[i].pc = "catch_text"
  /\ calls' = [calls EXCEPT ![i] = AfterCatchText(calls[i])]
  /\ UNCHANGED <<clients, built>>

\* the caller has taken the result of the invocation
Finish(i) ==
  /\ calls[i].pc \in {"returned", "threw"}
  /\ calls' = [calls EXCEPT ![i] = Idle]
  /\ UNCHANGED <<clients, built>>

NextExec ==
  \/ BuildTransactionForExecute
  \/ BuildCheckTransactionForExecute
  \/ Discard
  \/ \E i \in CallIds : ExecuteCall(i)
  \/ \E i \in CallIds : FetchResolves(i)
  \/ \E i \in CallIds : FetchRejects(i)
  \/ \E i \in CallIds : JsonSettles(i)
  \/ \E i \in CallIds : TextSettles(i)
  \/ \E i \in CallIds : TryJsonSettles(i)
  \/ \E i \in CallIds : CatchTextSettles(i)
  \/ \E i \in CallIds : Finish(i)

SpecExec == Init /\ [][NextExec]_vars

\* The promises execute awaits after fetch has resolved are reads of a body
\* that has arrived: the runtime settles each of them.
BodyReadsSettle ==
  \A i \in CallIds :
    /\ WF_vars(JsonSettles(i))
    /\ WF_vars(TextSettles(i))
    /\ WF_vars(TryJsonSettles(i))
    /\ WF_vars(CatchTextSettles(i))

SpecExecFair == SpecExec /\ BodyReadsSettle

(***************************************************************************)
(* Several execute invocations in flight at once, on one client or on      *)
(* several: each await is a point where another invocation may run.        *)
(***************************************************************************)
ConcurrentCalls == 2
ConcurrentIds == 1..ConcurrentCalls

InitConcurrent ==
  /\ clients = Credentials
  /\ built = NotBuilt
  /\ calls = [i \in ConcurrentIds |-> Idle]

NextConcurrent ==
  \/ BuildTransactionForExecute
  \/ BuildCheckTransactionForExecute
  \/ Discard
  \/ \E i \in ConcurrentIds : ExecuteCall(i)
  \/ \E i \in ConcurrentIds : FetchResolves(i)
  \/ \E i \in ConcurrentIds : FetchRejects(i)
  \/ \E i \in ConcurrentIds : JsonSettles(i)
  \/ \E i \in ConcurrentIds : TextSettles(i)
  \/ \E i \in ConcurrentIds : TryJsonSettles(i)
  \/ \E i \in ConcurrentIds : CatchTextSettles(i)
  \/ \E i \in ConcurrentIds : Finish(i)

SpecConcurrent == InitConcurrent /\ [][NextConcurrent]_vars

(***************************************************************************)
(* A session of one caller.  JavaScript hands objects over by reference:   *)
(* a build method receives the client (this) and the caller's params       *)
(* object and could write to either.  A call of a build method is          *)
(* therefore its result together with what the client and the params       *)
(* object hold when it returns.  The methods of client.ts assign to        *)
(* locals only (the processed urls, the body, the fresh fields object):    *)
(* they contain no assignment to a property of this or of params.          *)
(***************************************************************************)
\* the urls encoded in place, in the params object of the caller
buildTransactionPayloadCallEncodesInPlace(this, params, date) ==
  [result |-> buildTransactionPayload(this, params, date),
   this |-> this,
   params |-> [i \in 1..Len(params) |->
                 IF params[i].key \in {"return_url", "cancel_url", "continue_success_url"}
                 THEN Entry(params[i].key, ProcessUrl(params[i].value))
                 ELSE params[i]]]

buildTransactionPayloadCall(this, params, date) ==
  [result |-> buildTransactionPayload(this, params, date), this |-> this, params |-> params]

\* tran_id is a string, passed by value; params stands for the argument list
buildCheckTransactionPayloadCall(this, params, date) ==
  [result |-> buildCheckTransactionPayload(this, Get(params, "tran_id"), date),
   this |-> this, params |-> params]

buildTransactionListPayloadCall(this, params, date) ==
  [result |-> buildTransactionListPayload(this, params, date), this |-> this, params |-> params]

CallBuilder(op, this, params, date) ==
  CASE op = "buildTransactionPayload" -> buildTransactionPayloadCall(this, params, date)
    [] op = "buildCheckTransactionPayload" -> buildCheckTransactionPayloadCall(this, params, date)
    [] op = "buildTransactionListPayload" -> buildTransactionListPayloadCall(this, params, date)

\* the largest number of builds from the same arguments, and of other builds
\* between them
MaxBuilds == 2
MaxOthers == 1

\* the arguments of the repeated build: urls and deeplinks the method encodes,
\* names it trims, keys it adds after signing, missing values, and the
\* arguments of the two other methods
SessionTransactionParams ==
  { <<>>,
    << Entry("tran_id", Str("A1")), Entry("return_url", Str("https://a.io/r?x=1")) >>,
    << Entry("return_url", Str("https://a.io/r?x=1")), Entry("cancel_url", Str("u://c")) >>,
    << Entry("return_deeplink", Deeplink), Entry("tran_id", Str("A1")) >>,
    << Entry("return_deeplink", Str("app://p")), Entry("continue_success_url", Str("u://s")) >>,
    << Entry("firstname", Str("  John ")), Entry("email", Str(" j@x.io\n")) >>,
    << Entry("type", Str("pre-auth")), Entry("view_type", Str("popup")) >>,
    << Entry("tran_id", Null), Entry("return_url", Undefined) >>,
    << Entry("amount", Num(2)), Entry("payment_gate", Num(0)) >> }

SessionListParams ==
  { <<>>,
    << Entry("from_date", Str("20240101000000")), Entry("to_amount", Num(0)) >>,
    << Entry("status", Str("APPROVED")), Entry("limit_additional_params", Str("ap")) >> }

SessionArguments ==
  { [op |-> "buildTransactionPayload", params |-> p] : p \in SessionTransactionParams }
  \cup { [op |-> "buildCheckTransactionPayload", params |-> <<Entry("tran_id", t)>>] :
           t \in {Str("A1"), Null} }
  \cup { [op |-> "buildTransactionListPayload", params |-> p] : p \in SessionListParams }

\* the arguments of the builds made in between
OtherArguments ==
  { [op |-> "buildTransactionPayload", params |-> p] : p \in ExecTransactionParams }
  \cup { [op |-> "buildCheckTransactionPayload", params |-> <<Entry("tran_id", Str("ORDER-123"))>>],
         [op |-> "buildTransactionListPayload", params |-> <<Entry("status", Str("APPROVED"))>>] }

\* What the caller holds: the params object as written (given) and as it is
\* now (params), the first and the latest result of building from it, the
\* counts of builds from it and of other builds, whether execute has been
\* called, and the other calls that preceded the latest build (after).
NoSession ==
  [op |-> "none", client |-> 0, given |-> <<>>, params |-> <<>>,
   date |-> [year |-> 0, month |-> 0, day |-> 0, hours |-> 0, minutes |-> 0, seconds |-> 0],
   first |-> Threw("", <<>>), result |-> Threw("", <<>>),
   builds |-> 0, others |-> 0, executed |-> FALSE,
   after |-> [others |-> 0, executed |-> FALSE]]

InitSession ==
  /\ clients = Credentials
  /\ built = NoSession
  /\ calls = [i \in CallIds |-> Idle]

\* the first build from the params object
SessionBuild ==
  /\ built.op = "none"
  /\ \E c \in ClientIds, a \in SessionArguments, date \in Dates :
       LET call == CallBuilder(a.op, clients[c], a.params, date)
       IN /\ built' = [NoSession EXCEPT !.op = a.op, !.client = c, !.given = a.params,
                                        !.params = call.params, !.date = date,
                                        !.first = call.result, !.result = call.result,
                                        !.builds = 1]
          /\ clients' = [clients EXCEPT ![c] = call.this]
  /\ UNCHANGED calls

\* the same method called again on the same client with the same params
\* object, the clock reading the same
BuildAgain ==
  /\ built.op # "none"
  /\ built.builds < MaxBuilds
  /\ LET call == CallBuilder(built.op, clients[built.client], built.params, built.date)
     IN /\ built' = [built EXCEPT !.params = call.params, !.result = call.result,
                                  !.builds = @ + 1,
                                  !.after = [others |-> built.others,
                                             executed |-> built.executed]]
        /\ clients' = [clients EXCEPT ![built.client] = call.this]
  /\ UNCHANGED calls

\* a build from other arguments, on either client, its result dropped
OtherBuild ==
  /\ built.op # "none"
  /\ built.others < MaxOthers
  /\ \E c \in ClientIds, a \in OtherArguments, date \in Dates :
       LET call == CallBuilder(a.op, clients[c], a.params, date)
       IN clients' = [clients EXCEPT ![c] = call.this]
  /\ built' = [built EXCEPT !.others = @ + 1]
  /\ UNCHANGED calls

\* the held params object handed to the same method on the other client or at
\* another clock reading, the result dropped
BuildElsewhere ==
  /\ built.op # "none"
  /\ built.others < MaxOthers
  /\ \E c \in ClientIds, date \in Dates :
       /\ <<c, date>> # <<built.client, built.date>>
       /\ LET call == CallBuilder(built.op, clients[c], built.params, date)
          IN /\ clients' = [clients EXCEPT ![c] = call.this]
             /\ built' = [built EXCEPT !.params = call.params, !.others = @ + 1]
  /\ UNCHANGED calls

\* execute called, on either client, with the payload of the latest build;
\* the caller keeps the payload
ExecuteHeld(i) ==
  /\ built.op # "none"
  /\ built.result.outcome = "returned"
  /\ calls[i].pc = "idle"
  /\ \E c \in ClientIds, options \in ExecOptions :
       calls' = [calls EXCEPT ![i] = ExecuteStart(c, built.result.payload, options)]
  /\ built' = [built EXCEPT !.executed = TRUE]
  /\ UNCHANGED clients

NextSession ==
  \/ SessionBuild
  \/ BuildAgain
  \/ OtherBuild
  \/ BuildElsewhere
  \/ \E i \in CallIds : ExecuteHeld(i)
  \/ \E i \in CallIds : FetchResolves(i)
  \/ \E i \in CallIds : FetchRejects(i)
  \/ \E i \in CallIds : JsonSettles(i)
  \/ \E i \in CallIds : TextSettles(i)
  \/ \E i \in CallIds : TryJsonSettles(i)
  \/ \E i \in CallIds : CatchTextSettles(i)
  \/ \E i \in CallIds : Finish(i)

SpecSession == InitSession /\ [][NextSession]_vars

(***************************************************************************)
(* The older revision of the client (src/unnamed/part_006): the            *)
(* constructor takes an optional client_factory and keeps a transport in   *)
(* _client; create_transaction, check_transaction and transaction_list     *)
(* sign a FormData with create_payload and post it through _client.        *)
(***************************************************************************)
Fn(name) == [kind |-> "function", val |-> name]

\* the post of the default client, a closure over baseURL
DefaultPostTag == "fetch "
DefaultPost(baseURL) == Fn(DefaultPostTag \o baseURL)
IsDefaultPost(f) ==
  /\ f.kind = "function"
  /\ SubSeq(f.val, 1, Len(DefaultPostTag)) = DefaultPostTag
BaseURLOf(f) == SubSeq(f.val, Len(DefaultPostTag) + 1, Len(f.val))

\* createDefaultClient(): { async post(url, data) { ... } }
createDefaultClient(this) == Obj(<<Entry("post", DefaultPost(this.base_url))>>)

\* the factories a caller passes: none, the one of the test suite, and one
\* that returns a transport double answering { data: { success: true } }
ReturnsBaseUrl == Fn("(thisRef) => thisRef.base_url")
ReturnsDouble == Fn("(thisRef) => ({ post: async () => ({ data: { success: true } }) })")
ClientFactories == {Undefined, ReturnsBaseUrl, ReturnsDouble}

DoublePost == Fn("async () => ({ data: { success: true } })")

\* client_factory(thisRef)
CallFactory(client_factory, thisRef) ==
  CASE client_factory = ReturnsBaseUrl -> Str(thisRef.base_url)
    [] client_factory = ReturnsDouble -> Obj(<<Entry("post", DoublePost)>>)

\* a transport that is always the default one, whatever factory is passed
PayWayClientIgnoresFactory(base_url, merchant_id, api_key, client_factory) ==
  LET this == [base_url |-> base_url, merchant_id |-> merchant_id, api_key |-> api_key]
  IN [base_url |-> base_url, merchant_id |-> merchant_id, api_key |-> api_key,
      _client |-> createDefaultClient(this), client_factory |-> client_factory]

\* new PayWayClient(base_url, merchant_id, api_key, client_factory); the
\* record keeps, beside the fields of the object, the factory it was given
PayWayClient(base_url, merchant_id, api_key, client_factory) ==
  LET this == [base_url |-> base_url, merchant_id |-> merchant_id, api_key |-> api_key]
  IN [base_url |-> base_url, merchant_id |-> merchant_id, api_key |-> api_key,
      _client |-> IF client_factory.kind = "function"
                  THEN CallFactory(client_factory, this)
                  ELSE createDefaultClient(this),
      client_factory |-> client_factory]

NotConstructed ==
  [base_url |-> "", merchant_id |-> "", api_key |-> "", _client |-> Undefined,
   client_factory |-> Undefined]

\* Array.prototype.join turns an element into text: "" for null and
\* undefined, String(element) otherwise
JoinText(v) == IF NotNullish(v) THEN String(v) ELSE ""

\* [req_time, merchant_id, ...Object.values(body)]
LegacySignedValues(this, body, date) ==
  <<Str(format(date)), Str(this.merchant_id)>> \o Values(FilterBody(body))

\* create_payload of the older revision: a FormData of req_time, merchant_id,
\* the filtered body and the hash
create_payload_FormData(this, body, date) ==
  LET signed == LegacySignedValues(this, body, date)
      hash == create_hash(this, [i \in 1..Len(signed) |-> JoinText(signed[i])])
  IN FormData(<<Entry("req_time", Str(format(date))),
                Entry("merchant_id", Str(this.merchant_id))>>
              \o FilterBody(body)
              \o <<Entry("hash", Str(hash))>>)

\* the older body with currency written first
create_transaction_body_CurrencyFirst(params) ==
  << Entry("currency", Get(params, "currency")),
     Entry("tran_id", Get(params, "tran_id")),
     Entry("amount", Get(params, "amount")),
     Entry("pwt", Get(params, "pwt")),
     Entry("firstname", trim(Get(params, "firstname"))),
     Entry("lastname", trim(Get(params, "lastname"))),
     Entry("email", trim(Get(params, "email"))),
     Entry("phone", trim(Get(params, "phone"))),
     Entry("payment_option", Get(params, "payment_option")),
     Entry("return_url", ProcessUrl(Get(params, "return_url"))),
     Entry("continue_success_url", Get(params, "continue_success_url")),
     Entry("return_deeplink", ProcessDeeplink(Get(params, "return_deeplink"))) >>

\* the object literal create_transaction hands to create_payload
create_transaction_body(params) ==
  << Entry("tran_id", Get(params, "tran_id")),
     Entry("amount", Get(params, "amount")),
     Entry("pwt", Get(params, "pwt")),
     Entry("firstname", trim(Get(params, "firstname"))),
     Entry("lastname", trim(Get(params, "lastname"))),
     Entry("email", trim(Get(params, "email"))),
     Entry("phone", trim(Get(params, "phone"))),
     Entry("payment_option", Get(params, "payment_option")),
     Entry("return_url", ProcessUrl(Get(params, "return_url"))),
     Entry("continue_success_url", Get(params, "continue_success_url")),
     Entry("return_deeplink", ProcessDeeplink(Get(params, "return_deeplink"))),
     Entry("currency", Get(params, "currency")) >>

check_transaction_body(params) == <<Entry("tran_id", Get(params, "tran_id"))>>

transaction_list_body(params) ==
  << Entry("from_date", Get(params, "from_date")),
     Entry("to_date", Get(params, "to_date")),
     Entry("from_amount", Get(params, "from_amount")),
     Entry("to_amount", Get(params, "to_amount")),
     Entry("status", Get(params, "status")) >>

PostNotAFunction == "TypeError: this._client.post is not a function"
\* JSON.stringify(response, null, 2) of a Response, which has no own
\* enumerable property, is "{}"
LegacyHttpErrorMessage == "HTTP error! status: {}"

\* One call of the older revision: pc is idle; fetch, json (suspended in the
\* default post); double (suspended in the post of the double); returned;
\* threw.
LegacyIdle ==
  [pc |-> "idle", op |-> "", client |-> 0, params |-> <<>>,
   date |-> [year |-> 0, month |-> 0, day |-> 0, hours |-> 0, minutes |-> 0, seconds |-> 0],
   transport |-> Undefined, path |-> "", data |-> <<>>, request |-> NoRequest,
   response |-> NoResponse, value |-> Undefined, error |-> NoError]

\* await this._client.post(path, this.create_payload(body)), up to the first
\* await inside post or to the throw
LegacyPost(op, c, this, params, date, path, body) ==
  LET data == create_payload_FormData(this, body, date)
      transport == this._client
      post == IF transport.kind = "object" THEN Get(transport.val, "post") ELSE Undefined
      started == [LegacyIdle EXCEPT !.op = op, !.client = c, !.params = params,
                                    !.date = date, !.transport = transport,
                                    !.path = path, !.data = data]
  IN IF post.kind # "function"
     THEN [started EXCEPT !.pc = "threw", !.error = Error(PostNotAFunction)]
     ELSE IF IsDefaultPost(post)
     THEN [started EXCEPT !.pc = "fetch",
                          !.request = [url |-> BaseURLOf(post) \o path,
                                       method |-> "POST", body |-> data]]
     ELSE [started EXCEPT !.pc = "double"]

create_transaction(c, this, params, date) ==
  LegacyPost("create_transaction", c, this, params, date, PurchasePath,
             create_transaction_body(params))

check_transaction(c, this, params, date) ==
  LegacyPost("check_transaction", c, this, params, date, CheckTransactionPath,
             check_transaction_body(params))

transaction_list(c, this, params, date) ==
  LegacyPost("transaction_list", c, this, params, date, TransactionListPath,
             transaction_list_body(params))

\* the default post from the resolution of fetch on
LegacyAfterFetch(call, response) ==
  IF ~ResponseOk(response)
  THEN [call EXCEPT !.pc = "threw", !.response = response,
                    !.error = Error(LegacyHttpErrorMessage)]
  ELSE [call EXCEPT !.pc = "json", !.response = response]

\* const responseData = await response.json(); return { data: responseData };
\* the method returns response.data
LegacyAfterJson(call) ==
  IF IsJson(call.response.body)
  THEN [call EXCEPT !.pc = "returned", !.value = JsonParse(call.response.body)]
  ELSE [call EXCEPT !.pc = "threw", !.error = Error(JsonSyntaxError)]

\* the keys create_transaction reads from its params
LegacyTransactionKeys ==
  { "tran_id", "payment_option", "amount", "currency", "return_url", "return_deeplink",
    "continue_success_url", "pwt", "firstname", "lastname", "email", "phone" }

LegacyTransactionParams ==
  { p \in ParamsUpTo(EntriesOf(LegacyTransactionKeys, TransactionValues), MaxParams) :
      DistinctKeys(p) }

LegacyListParams ==
  { p \in ParamsUpTo(EntriesOf({ListSigned[i] : i \in DOMAIN ListSigned}, ListValues),
                     MaxParams) : DistinctKeys(p) }

LegacyResponses ==
  { [status |-> 200, statusText |-> "OK", contentType |-> Str("application/json"),
     body |-> "{\"status\":\"APPROVED\"}"],
    [status |-> 200, statusText |-> "OK", contentType |-> Str("text/html; charset=utf-8"),
     body |-> "<html>Checkout</html>"],
    [status |-> 500, statusText |-> "Internal Server Error", contentType |-> Str("text/html"),
     body |-> "<html>Error</html>"] }

InitLegacy ==
  /\ clients = [c \in ClientIds |-> NotConstructed]
  /\ built = NotBuilt
  /\ calls = [i \in CallIds |-> LegacyIdle]

NewPayWayClient ==
  \E c \in ClientIds :
    /\ clients[c] = NotConstructed
    /\ \E client_factory \in ClientFactories :
         clients' = [clients EXCEPT ![c] =
                       PayWayClient(Credentials[c].base_url, Credentials[c].merchant_id,
                                    Credentials[c].api_key, client_factory)]
    /\ UNCHANGED <<built, calls>>

CreateTransaction(i) ==
  /\ calls[i].pc = "idle"
  /\ \E c \in ClientIds :
       /\ clients[c] # NotConstructed
       /\ \E params \in LegacyTransactionParams, date \in Dates :
            calls' = [calls EXCEPT ![i] = create_transaction(c, clients[c], params, date)]
  /\ UNCHANGED <<clients, built>>

CheckTransaction(i) ==
  /\ calls[i].pc = "idle"
  /\ \E c \in ClientIds :
       /\ clients[c] # NotConstructed
       /\ \E tran_id \in TranIds, date \in Dates :
            calls' = [calls EXCEPT ![i] =
                        check_transaction(c, clients[c], <<Entry("tran_id", tran_id)>>, date)]
  /\ UNCHANGED <<clients, built>>

TransactionList(i) ==
  /\ calls[i].pc = "idle"
  /\ \E c \in ClientIds :
       /\ clients[c] # NotConstructed
       /\ \E params \in LegacyListParams, date \in Dates :
            calls' = [calls EXCEPT ![i] = transaction_list(c, clients[c], params, date)]
  /\ UNCHANGED <<clients, built>>

LegacyFetchResolves(i) ==
  /\ calls[i].pc = "fetch"
  /\ \E response \in LegacyResponses :
       calls' = [calls EXCEPT ![i] = LegacyAfterFetch(calls[i], response)]
  /\ UNCHANGED <<clients, built>>

LegacyFetchRejects(i) ==
  /\ calls[i].pc = "fetch"
  /\ calls' = [calls EXCEPT ![i].pc = "threw", ![i].error = Error(FetchFailed)]
  /\ UNCHANGED <<clients, built>>

LegacyJsonSettles(i) ==
  /\ calls[i].pc = "json"
  /\ calls' = [calls EXCEPT ![i] = LegacyAfterJson(calls[i])]
  /\ UNCHANGED <<clients, built>>

\* the post of the double resolves with { data: { success: true } }
DoubleSettles(i) ==
  /\ calls[i].pc = "double"
  /\ calls' = [calls EXCEPT ![i].pc = "returned",
                            ![i].value = JsonParse("{\"success\":true}")]
  /\ UNCHANGED <<clients, built>>

LegacyFinish(i) ==
  /\ calls[i].pc \in {"returned", "threw"}
  /\ calls' = [calls EXCEPT ![i] = LegacyIdle]
  /\ UNCHANGED <<clients, built>>

NextLegacy ==
  \/ NewPayWayClient
  \/ \E i \in CallIds : CreateTransaction(i)
  \/ \E i \in CallIds : CheckTransaction(i)
  \/ \E i \in CallIds : TransactionList(i)
  \/ \E i \in CallIds : LegacyFetchResolves(i)
  \/ \E i \in CallIds : LegacyFetchRejects(i)
  \/ \E i \in CallIds : LegacyJsonSettles(i)
  \/ \E i \in CallIds : DoubleSettles(i)
  \/ \E i \in CallIds : LegacyFinish(i)

SpecLegacy == InitLegacy /\ [][NextLegacy]_vars

(***************************************************************************)
(* Properties                                                              *)
(***************************************************************************)
HmacBuilders ==
  {"buildTransactionPayload", "buildCheckTransactionPayload", "buildTransactionListPayload"}

PreAuthBuilders ==
  {"buildCompletePreAuthPayload", "buildCompletePreAuthWithPayoutPayload",
   "buildCancelPreAuthPayload"}

BuiltPayload == built.result.payload
BuiltFields == built.result.payload.fields
BuiltClient == clients[built.client]

\* the same build method called again, at the same clock reading, with params
Rebuild(params) ==
  CASE built.op = "buildTransactionPayload" ->
         buildTransactionPayload(BuiltClient, params, built.date)
    [] built.op = "buildCheckTransactionPayload" ->
         buildCheckTransactionPayload(BuiltClient, Get(params, "tran_id"), built.date)
    [] built.op = "buildTransactionListPayload" ->
         buildTransactionListPayload(BuiltClient, params, built.date)

\* the body the build method hands to create_payload
BuiltBody ==
  CASE built.op = "buildTransactionPayload" -> TransactionBody(built.params)
    [] built.op = "buildCheckTransactionPayload" ->
         CheckTransactionBody(Get(built.params, "tran_id"))
    [] built.op = "buildTransactionListPayload" -> TransactionListBody(built.params)

Without(params, i) == SubSeq(params, 1, i - 1) \o SubSeq(params, i + 1, Len(params))

\* C1: the hash returned beside the fields of a create-transaction,
\* check-transaction or list-transactions payload is the value stored under
\* the key hash in the fields.
C1_HashIsFieldsHash ==
  built.op \in HmacBuilders =>
    /\ built.result.outcome = "returned"
    /\ HasKey(BuiltFields, "hash")
    /\ BuiltPayload.hash.kind = "string"
    /\ BuiltPayload.hash = Get(BuiltFields, "hash")

C1_Witness ==
  /\ built.op = "buildTransactionPayload"
  /\ Get(built.params, "view_type") = Str("popup")
  /\ HasKey(BuiltFields, "view_type")
  /\ BuiltPayload.hash = Get(BuiltFields, "hash")

\* C2: for the three builders the signature is the base64 HMAC-SHA512, keyed
\* with api_key, of the timestamp, then the merchant id, then the string form
\* of every included (non-null) body value, concatenated with no separator.
C2_SignatureOverConcatenation ==
  built.op \in HmacBuilders =>
    BuiltPayload.hash =
      Str(HmacSha512Base64(BuiltClient.api_key,
            format(built.date) \o BuiltClient.merchant_id
              \o Join(BodyStrings(FilterBody(BuiltBody)))))

C2_Witness ==
  /\ built.op = "buildTransactionPayload"
  /\ Get(built.params, "amount") = Num(2)
  /\ Get(built.params, "tran_id") = Str("A1")
  /\ BuiltPayload.hash = Str(HmacSha512Base64("k1", "20240105090307" \o "m1" \o "A1" \o "2"))

\* C3: after the timestamp and the merchant id the signed values follow the
\* declaration order of the operation, restricted to the parameters that are
\* present, whatever the order of the keys in the params object.
DeclaredOrder ==
  CASE built.op = "buildTransactionPayload" -> TransactionSigned
    [] built.op = "buildCheckTransactionPayload" -> << "tran_id" >>
    [] built.op = "buildTransactionListPayload" -> ListSigned

PresentInOrder == SelectSeq(DeclaredOrder, LAMBDA k : NotNullish(Get(built.params, k)))

C3_DeclarationOrder ==
  built.op \in HmacBuilders =>
    BuiltPayload.hash =
      Str(HmacSha512Base64(BuiltClient.api_key,
            format(built.date) \o BuiltClient.merchant_id
              \o Join([i \in 1..Len(PresentInOrder) |->
                         String(Get(BuiltFields, PresentInOrder[i]))])))

C3_Witness ==
  /\ built.op = "buildTransactionPayload"
  /\ built.params = << Entry("currency", Str("USD")), Entry("tran_id", Str("A1")) >>
  /\ Keys(BuiltFields) = << "req_time", "merchant_id", "tran_id", "currency", "hash" >>

\* C4: the signature of a create-transaction payload is the one the same call
\* gives without view_type, and fields holds the key view_type exactly when the
\* view_type supplied is neither null nor undefined.
C4_ViewTypeNotSigned ==
  built.op = "buildTransactionPayload" =>
    /\ Rebuild(SelectSeq(built.params, LAMBDA e : e.key # "view_type")).payload.hash
         = BuiltPayload.hash
    /\ HasKey(BuiltFields, "view_type") <=> NotNullish(Get(built.params, "view_type"))

C4_Witness ==
  /\ built.op = "buildTransactionPayload"
  /\ built.params = << Entry("view_type", Str("popup")), Entry("amount", Num(2)) >>
  /\ Get(BuiltFields, "view_type") = Str("popup")

\* C5: a parameter of the three builders whose value is null or undefined is
\* absent from fields, and the build gives the payload (fields and signature)
\* that the same call gives when the parameter is not supplied.
C5_NullishDropped ==
  built.op \in HmacBuilders =>
    \A i \in 1..Len(built.params) :
      ~NotNullish(built.params[i].value) =>
        /\ ~HasKey(BuiltFields, built.params[i].key)
        /\ Rebuild(Without(built.params, i)).payload = BuiltPayload

C5_Witness ==
  /\ built.op = "buildTransactionPayload"
  /\ built.params = << Entry("firstname", Null), Entry("amount", Num(2)) >>
  /\ Keys(BuiltFields) = << "req_time", "merchant_id", "amount", "hash" >>

\* C6: an execute invocation given a payload whose fields.payment_option is
\* "abapay", with allowHtml false or omitted, throws the abapay error having
\* issued no fetch call.
C6_AbapayGuardBeforeFetch ==
  \A i \in CallIds :
    ( /\ calls[i].pc # "idle"
      /\ Get(calls[i].payload.fields, "payment_option") = Str("abapay")
      /\ Get(calls[i].options, "allowHtml") \in {Undefined, Bool(FALSE)} )
    => /\ calls[i].pc = "threw"
       /\ calls[i].fetches = 0
       /\ calls[i].request = NoRequest
       /\ calls[i].response = NoResponse
       /\ calls[i].error = Error(AbapayMessage)

C6_Witness ==
  \E i \in CallIds :
    /\ calls[i].pc = "threw"
    /\ Get(calls[i].payload.fields, "payment_option") = Str("abapay")
    /\ calls[i].options = <<>>
    /\ calls[i].fetches = 0

\* C7: for a 2xx response a JSON content type gives the parsed JSON value, an
\* HTML content type with allowHtml true gives the raw response text, and an
\* HTML content type with allowHtml false throws and gives no value.
DeclaresJson(response) ==
  response.contentType.kind = "string"
    /\ Includes(response.contentType.val, "application/json")

DeclaresHtml(response) ==
  response.contentType.kind = "string" /\ ~DeclaresJson(response)
    /\ Includes(response.contentType.val, "text/html")

C7_ContentTypeClassification ==
  \A i \in CallIds :
    LET call == calls[i]
        response == call.response
        optIn == Get(call.options, "allowHtml") = Bool(TRUE)
    IN (response # NoResponse /\ response.status \in 200..299) =>
         /\ DeclaresJson(response) =>
              \/ call.pc = "json"
              \/ call.pc = "returned" /\ call.value = JsonParse(response.body)
              \/ call.pc = "threw" /\ ~IsJson(response.body)
                   /\ call.error = Error(JsonSyntaxError) /\ call.value = Undefined
         /\ (DeclaresHtml(response) /\ optIn) =>
              \/ call.pc = "text"
              \/ call.pc = "returned" /\ call.value = Str(response.body)
         /\ (DeclaresHtml(response) /\ ~optIn) =>
              /\ call.pc = "threw"
              /\ call.value = Undefined
              /\ call.error = Error(HtmlMessage)

C7_Witness ==
  \E i \in CallIds :
    /\ calls[i].pc = "returned"
    /\ calls[i].response.contentType = Str("text/html; charset=utf-8")
    /\ calls[i].options = <<Entry("allowHtml", Bool(TRUE))>>
    /\ calls[i].value = Str("<html>Checkout</html>")

\* C8: the error execute throws on a non-2xx answer has the fields status,
\* statusText and body of the response, and a message that names the status
\* code and the status text.
C8_ErrorCarriesResponse ==
  \A i \in CallIds :
    LET call == calls[i]
        response == call.response
    IN (response # NoResponse /\ response.status \notin 200..299) =>
         /\ call.pc = "threw"
         /\ Get(call.error.props, "status") = Num(response.status)
         /\ Get(call.error.props, "statusText") = Str(response.statusText)
         /\ Get(call.error.props, "body") = Str(response.body)
         /\ Includes(call.error.message, NumToStr(response.status))
         /\ Includes(call.error.message, response.statusText)

\* C9: on a client without an RSA public key each pre-auth build throws
\* 'RSA public key is required for pre-auth operations', having made no
\* encryption or signing call, and returns no payload.
C9_PreAuthNeedsRsaKey ==
  (built.op \in PreAuthBuilders /\ BuiltClient.rsa_public_key.kind # "string") =>
    /\ built.result.outcome = "threw"
    /\ built.result.error = Error("RSA public key is required for pre-auth operations")
    /\ built.result.engine = <<>>
    /\ built.result.payload = NoPayload

C9_Witness ==
  /\ built.op = "buildCompletePreAuthWithPayoutPayload"
  /\ BuiltClient.rsa_public_key = Undefined
  /\ built.result.outcome = "threw"

\* C10: the fields of a pre-auth payload hold merchant_auth, request_time,
\* merchant_id and hash; the signature is the HMAC of the encrypted
\* merchant_auth, then the request timestamp, then the merchant id;
\* payload.hash is fields.hash; the url is base_url followed by the pre-auth
\* path under api/merchant-portal/merchant-access/online-transaction/.
PreAuthEndpoint ==
  CASE built.op = "buildCompletePreAuthPayload" -> "pre-auth-completion"
    [] built.op = "buildCompletePreAuthWithPayoutPayload" -> "pre-auth-completion-with-payout"
    [] built.op = "buildCancelPreAuthPayload" -> "pre-auth-cancellation"

C10_PreAuthPayloadShape ==
  (built.op \in PreAuthBuilders /\ built.result.outcome = "returned") =>
    /\ \A k \in {"merchant_auth", "request_time", "merchant_id", "hash"} :
         HasKey(BuiltFields, k) /\ Get(BuiltFields, k).kind = "string"
    /\ Get(BuiltFields, "request_time") = Str(format(built.date))
    /\ Get(BuiltFields, "merchant_id") = Str(BuiltClient.merchant_id)
    /\ Get(BuiltFields, "hash") =
         Str(HmacSha512Base64(BuiltClient.api_key,
               Get(BuiltFields, "merchant_auth").val
                 \o Get(BuiltFields, "request_time").val
                 \o Get(BuiltFields, "merchant_id").val))
    /\ BuiltPayload.hash = Get(BuiltFields, "hash")
    /\ BuiltPayload.url =
         BuiltClient.base_url \o "api/merchant-portal/merchant-access/online-transaction/"
           \o PreAuthEndpoint

C10_Witness ==
  /\ built.op = "buildCompletePreAuthWithPayoutPayload"
  /\ built.result.outcome = "returned"
  /\ Get(built.params, "payout") = Str("[]")
  /\ Keys(BuiltFields) = << "merchant_auth", "request_time", "merchant_id", "hash" >>

\* C11: the pre-auth plaintext is encrypted in successive chunks of at most
\* 117 bytes, concatenated in order: ceil(len/117) chunks, every chunk but the
\* last of exactly 117 bytes, so 117 bytes give one chunk and 118 give two.
PreAuthPlain ==
  CASE built.op = "buildCompletePreAuthPayload" -> Serialize(CompletePreAuthBody(built.params))
    [] built.op = "buildCompletePreAuthWithPayoutPayload" ->
         Serialize(CompletePreAuthWithPayoutBody(built.params))
    [] built.op = "buildCancelPreAuthPayload" -> Serialize(CancelPreAuthBody(built.params))

ChunkCount(plain) == (Len(plain) + 116) \div 117

NthChunk(plain, i) ==
  SubSeq(plain, 117 * (i - 1) + 1, IF 117 * i < Len(plain) THEN 117 * i ELSE Len(plain))

C11_ChunksOf117 ==
  (built.op \in PreAuthBuilders /\ built.result.outcome = "returned") =>
    /\ Len(Chunks(PreAuthPlain)) = ChunkCount(PreAuthPlain)
    /\ \A i \in 1..ChunkCount(PreAuthPlain) :
         /\ Chunks(PreAuthPlain)[i] = NthChunk(PreAuthPlain, i)
         /\ i < ChunkCount(PreAuthPlain) => Len(Chunks(PreAuthPlain)[i]) = 117
    /\ Get(BuiltFields, "merchant_auth") =
         Str(base64(Join([i \in 1..ChunkCount(PreAuthPlain) |->
               RsaEncrypt(BuiltClient.rsa_public_key.val, NthChunk(PreAuthPlain, i),
                          built.pad)])))

C11_Witness ==
  /\ built.op = "buildCompletePreAuthWithPayoutPayload"
  /\ built.result.outcome = "returned"
  /\ Len(PreAuthPlain) = 118
  /\ Len(Chunks(PreAuthPlain)) = 2
  /\ Len(Chunks(PreAuthPlain)[1]) = 117

\* C12: for fixed credentials, parameters and timestamp every build returns
\* the same fields and the same signature, whatever build and execute calls
\* were made in between on the same client or on the other one, and no call
\* leaves state behind.  In a session the caller builds from a params object,
\* makes other calls, and builds again from the same object at the same clock
\* reading: the later result is the first one (outcome, fields, hash, url and
\* method), the params object still holds what the caller wrote into it, and
\* every client object holds the fields the constructor set and nothing else.
C12_BuildsAreIndependent ==
  /\ \A c \in ClientIds :
       /\ clients[c].base_url = Credentials[c].base_url
       /\ clients[c].merchant_id = Credentials[c].merchant_id
       /\ clients[c].api_key = Credentials[c].api_key
       /\ clients[c] = Credentials[c]
  /\ built.op # "none" =>
       /\ built.params = built.given
       /\ built.result.outcome = built.first.outcome
       /\ built.result.payload.fields = built.first.payload.fields
       /\ built.result.payload.hash = built.first.payload.hash
       /\ built.result = built.first

C12_Witness ==
  /\ built.op = "buildTransactionPayload"
  /\ built.builds = 2
  /\ built.after.others = 1
  /\ built.after.executed
  /\ Get(built.given, "return_url") = Str("https://a.io/r?x=1")
  /\ Get(built.result.payload.fields, "return_url")
       = Str("aHR0cHM6Ly9hLmlvL3I/eD0x")
  /\ \E i \in CallIds : calls[i].pc = "returned"

\* C13: signing the values of a build in a permuted order gives a different
\* signature unless the permuted order is the original order.
BuiltSigned == SignedValues(BuiltClient, BuiltBody, built.date)

RECURSIVE PermutationsOf(_)
PermutationsOf(values) ==
  IF Len(values) = 0 THEN {<<>>}
  ELSE UNION { { <<values[i]>> \o rest :
                   rest \in PermutationsOf(SubSeq(values, 1, i - 1)
                                             \o SubSeq(values, i + 1, Len(values))) } :
               i \in 1..Len(values) }

RECURSIVE Concatenation(_)
Concatenation(values) ==
  IF Len(values) = 0 THEN "" ELSE values[1] \o Concatenation(Tail(values))

C13_EveryPermutationChangesHash ==
  built.op \in HmacBuilders =>
    \A permuted \in PermutationsOf(BuiltSigned) :
      permuted # BuiltSigned => Str(create_hash(BuiltClient, permuted)) # BuiltPayload.hash

\* C13 as amended: signing the values in a permuted order gives the same
\* signature exactly when the permuted sequence has the same concatenation as
\* the original one (as when an empty value is moved), and a different
\* signature otherwise.
C13_PermutationChangesHashIffConcatenation ==
  built.op \in HmacBuilders =>
    \A permuted \in PermutationsOf(BuiltSigned) :
      Str(create_hash(BuiltClient, permuted)) = BuiltPayload.hash
        <=> Concatenation(permuted) = Concatenation(BuiltSigned)

C13_Witness ==
  /\ built.op = "buildTransactionPayload"
  /\ built.params = << Entry("firstname", Str(" ")), Entry("tran_id", Str("A1")) >>
  /\ \E permuted \in PermutationsOf(BuiltSigned) :
       /\ permuted # BuiltSigned
       /\ Str(create_hash(BuiltClient, permuted)) = BuiltPayload.hash
  /\ \E permuted \in PermutationsOf(BuiltSigned) :
       Str(create_hash(BuiltClient, permuted)) # BuiltPayload.hash

\* C14: return_url, cancel_url, continue_success_url and return_deeplink are
\* stored in fields, and signed, as the standard base64 of their text (the
\* string, or the JSON serialization of a structured deeplink), and decoding
\* the stored value gives that text back exactly.
UrlKeys == {"return_url", "cancel_url", "continue_success_url", "return_deeplink"}

\* the character of a byte, the inverse of CharCode
ByteChar(n) ==
  CASE n = 9 -> "\t"
    [] n = 10 -> "\n"
    [] n = 13 -> "\r"
    [] n \in 32..95 -> CharAt(AsciiLow, n - 31)
    [] n \in 97..126 -> CharAt(AsciiHigh, n - 96)

Sextet(c) == IndexIn(B64Alphabet, c) - 1

\* well formed standard base64: groups of four characters of the alphabet,
\* the last group padded with one or two "="
IsBase64(s) ==
  /\ Len(s) % 4 = 0
  /\ \A i \in 1..Len(s) :
       \/ IndexIn(B64Alphabet, CharAt(s, i)) > 0
       \/ CharAt(s, i) = "=" /\ i >= Len(s) - 1 /\ (i = Len(s) \/ CharAt(s, Len(s)) = "=")

\* the characters of one group of four
DecodeGroup(g) ==
  LET a == Sextet(CharAt(g, 1))
      b == Sextet(CharAt(g, 2))
      c == Sextet(CharAt(g, 3))
      d == Sextet(CharAt(g, 4))
  IN IF CharAt(g, 3) = "=" THEN ByteChar(a * 4 + b \div 16)
     ELSE IF CharAt(g, 4) = "="
     THEN ByteChar(a * 4 + b \div 16) \o ByteChar((b % 16) * 16 + c \div 4)
     ELSE ByteChar(a * 4 + b \div 16) \o ByteChar((b % 16) * 16 + c \div 4)
            \o ByteChar((c % 4) * 64 + d)

RECURSIVE Base64Decode(_)
Base64Decode(s) ==
  IF Len(s) = 0 THEN ""
  ELSE IF Len(s) = 4 THEN DecodeGroup(s)
  ELSE LET half == 4 * ((Len(s) \div 4) \div 2)
       IN Base64Decode(SubSeq(s, 1, half)) \o Base64Decode(SubSeq(s, half + 1, Len(s)))

UrlText(v) == IF v.kind = "string" THEN v.val ELSE JsonStringify(v)

C14_UrlsAreBase64 ==
  built.op = "buildTransactionPayload" =>
    \A k \in UrlKeys :
      NotNullish(Get(built.params, k)) =>
        /\ HasKey(BuiltFields, k)
        /\ Get(BuiltFields, k).kind = "string"
        /\ IsBase64(Get(BuiltFields, k).val)
        /\ Base64Decode(Get(BuiltFields, k).val) = UrlText(Get(built.params, k))
        /\ \E i \in 3..Len(BuiltSigned) : BuiltSigned[i] = Get(BuiltFields, k).val

C14_Witness ==
  /\ built.op = "buildTransactionPayload"
  /\ Get(built.params, "return_url") = Str("https://a.io/r?x=1")
  /\ Get(built.params, "return_deeplink") = Deeplink
  /\ Get(BuiltFields, "return_url") = Str("aHR0cHM6Ly9hLmlvL3I/eD0x")
  /\ Base64Decode(Get(BuiltFields, "return_deeplink").val)
       = "{\"android_scheme\":\"a://x\",\"ios_scheme\":\"i://y\"}"

\* C15: string values of firstname, lastname, email and phone are stored in
\* fields and signed without their leading and trailing whitespace, the
\* stored and the signed value being the same string; a value that is not a
\* string is not trimmed (it is stored and signed in its string form).
TrimmedKeys == {"firstname", "lastname", "email", "phone"}

AllWhiteSpace(s) == \A i \in 1..Len(s) : CharAt(s, i) \in WhiteSpace

\* t is s without its leading and trailing whitespace
IsTrimOf(t, s) ==
  /\ \E i \in 1..(Len(s) + 1) :
       /\ i + Len(t) - 1 <= Len(s)
       /\ SubSeq(s, i, i + Len(t) - 1) = t
       /\ AllWhiteSpace(SubSeq(s, 1, i - 1))
       /\ AllWhiteSpace(SubSeq(s, i + Len(t), Len(s)))
  /\ Len(t) > 0 => CharAt(t, 1) \notin WhiteSpace /\ CharAt(t, Len(t)) \notin WhiteSpace

C15_IdentityFieldsTrimmed ==
  built.op = "buildTransactionPayload" =>
    \A k \in TrimmedKeys :
      LET v == Get(built.params, k) IN
        NotNullish(v) =>
          /\ HasKey(BuiltFields, k)
          /\ Get(BuiltFields, k).kind = "string"
          /\ v.kind = "string" => IsTrimOf(Get(BuiltFields, k).val, v.val)
          /\ v.kind # "string" => Get(BuiltFields, k).val = String(v)
          /\ \E i \in 3..Len(BuiltSigned) : BuiltSigned[i] = Get(BuiltFields, k).val

C15_Witness ==
  /\ built.op = "buildTransactionPayload"
  /\ built.params = << Entry("phone", Num(12)), Entry("firstname", Str("  John ")) >>
  /\ Get(BuiltFields, "firstname") = Str("John")
  /\ Get(BuiltFields, "phone") = Str("12")
  /\ BuiltSigned = << "20240105090307", "m1", "John", "12" >>

\* C16: hash is the last key of the fields of every built payload, whatever
\* the build method and its parameters (view_type and type included).
LastKey(obj) == Keys(obj)[Len(obj)]

C16_HashIsLastKey ==
  (built.op # "none" /\ built.result.outcome = "returned") => LastKey(BuiltFields) = "hash"

\* C16 as amended: hash is the last key that create_payload writes and the
\* last key of fields for every build, except a create-transaction build given
\* a view_type that is neither null nor undefined: there view_type follows
\* hash and is the last key.  A supplied type adds no key after hash.
C16_HashIsLastKeyButForViewType ==
  (built.op # "none" /\ built.result.outcome = "returned") =>
    /\ Len(SelectSeq(Keys(BuiltFields), LAMBDA k : k = "hash")) = 1
    /\ IF built.op = "buildTransactionPayload" /\ NotNullish(Get(built.params, "view_type"))
       THEN /\ LastKey(BuiltFields) = "view_type"
            /\ Keys(BuiltFields)[Len(BuiltFields) - 1] = "hash"
       ELSE LastKey(BuiltFields) = "hash"

C16_Witness ==
  /\ built.op = "buildTransactionPayload"
  /\ built.params = << Entry("view_type", Str("popup")), Entry("type", Str("pre-auth")) >>
  /\ Keys(BuiltFields) = << "req_time", "merchant_id", "type", "hash", "view_type" >>

\* C17: the keys of fields are req_time, merchant_id and hash, the declared
\* parameters of the operation that are present and, for create-transaction,
\* view_type when present; a parameter outside the declared list is not in
\* fields and does not change fields or the signature.
DeclaredKeys == {DeclaredOrder[i] : i \in DOMAIN DeclaredOrder}

AcceptedKeys ==
  DeclaredKeys \cup (IF built.op = "buildTransactionPayload" THEN {"view_type"} ELSE {})

KeySet(obj) == {obj[i].key : i \in DOMAIN obj}

C17_ExactKeySet ==
  built.op \in HmacBuilders =>
    /\ KeySet(BuiltFields) =
         {"req_time", "merchant_id", "hash"}
           \cup {k \in AcceptedKeys : NotNullish(Get(built.params, k))}
    /\ \A i \in 1..Len(built.params) :
         built.params[i].key \notin AcceptedKeys =>
           /\ built.params[i].key \notin KeySet(BuiltFields)
           /\ Rebuild(Without(built.params, i)).payload = BuiltPayload

C17_Witness ==
  /\ built.op = "buildTransactionListPayload"
  /\ built.params = << Entry("limit_limit_amount", Num(5)), Entry("status", Str("APPROVED")) >>
  /\ Keys(BuiltFields) = << "req_time", "merchant_id", "status", "hash" >>

\* C18: every payload of the create-transaction, check-transaction and
\* list-transactions builds has method "POST" and, as url, base_url directly
\* followed by the fixed path of the operation, whatever the parameters.
OperationPath ==
  CASE built.op = "buildTransactionPayload" -> "api/payment-gateway/v1/payments/purchase"
    [] built.op = "buildCheckTransactionPayload" ->
         "api/payment-gateway/v1/payments/check-transaction"
    [] built.op = "buildTransactionListPayload" ->
         "api/payment-gateway/v1/payments/transaction-list"

C18_UrlAndMethod ==
  built.op \in HmacBuilders =>
    /\ built.result.outcome = "returned"
    /\ BuiltPayload.method = "POST"
    /\ BuiltPayload.url = Credentials[built.client].base_url \o OperationPath

C18_Witness ==
  /\ built.op = "buildTransactionListPayload"
  /\ Len(built.params) = 2
  /\ BuiltPayload.url = "http://example.comapi/payment-gateway/v1/payments/transaction-list"
  /\ BuiltPayload.method = "POST"

\* C19: an execute invocation that passes the abapay guard sends one request
\* and never a second, whatever the answer and whether it returns or throws.
StoppedByGuard(call) ==
  /\ Get(call.payload.fields, "payment_option") = Str("abapay")
  /\ Get(call.options, "allowHtml") \in {Undefined, Bool(FALSE)}

C19_OneRequestPerExecute ==
  \A i \in CallIds :
    (calls[i].pc # "idle" /\ ~StoppedByGuard(calls[i])) =>
      /\ calls[i].fetches = 1
      /\ calls[i].request.url = calls[i].payload.url
      /\ calls[i].request.method = calls[i].payload.method

C19_Witness ==
  \E i \in CallIds :
    /\ calls[i].pc = "threw"
    /\ calls[i].response.status = 500
    /\ calls[i].fetches = 1

\* C20: for a 2xx answer whose content type is neither JSON nor HTML, execute
\* returns the parsed value when the body parses as JSON; when it does not,
\* execute throws the unexpected-content-type error if allowHtml is false and
\* returns the raw text of the body if allowHtml is true.
C20_UnknownContentType ==
  \A i \in CallIds :
    LET call == calls[i]
        response == call.response
        optIn == Get(call.options, "allowHtml") = Bool(TRUE)
    IN ( /\ response # NoResponse
         /\ response.status \in 200..299
         /\ ~DeclaresJson(response)
         /\ ~DeclaresHtml(response) ) =>
         \/ call.pc \in {"try_json", "catch_text"}
         \/ /\ IsJson(response.body)
            /\ call.pc = "returned"
            /\ call.value = JsonParse(response.body)
         \/ /\ ~IsJson(response.body)
            /\ ~optIn
            /\ call.pc = "threw"
            /\ call.error = Error(UnexpectedMessage(ContentType(response)))
         \/ /\ ~IsJson(response.body)
            /\ optIn
            /\ call.pc = "returned"
            /\ call.value = Str(response.body)

\* C21: an execute invocation that passes the abapay guard sends, as the body
\* of its request, exactly the entries of payload.fields: as many entries as
\* fields has, the k-th entry carrying the k-th key of fields with its value,
\* no key twice, to payload.url with payload.method.
C21_BodyIsFields ==
  \A i \in CallIds :
    (calls[i].pc # "idle" /\ ~StoppedByGuard(calls[i])) =>
      LET body == calls[i].request.body
          fields == calls[i].payload.fields
      IN /\ Len(body) = Len(fields)
         /\ \A k \in 1..Len(fields) :
              /\ body[k].key = fields[k].key
              /\ Str(body[k].value) = fields[k].value
         /\ \A k, l \in 1..Len(body) : body[k].key = body[l].key => k = l
         /\ calls[i].request.url = calls[i].payload.url
         /\ calls[i].request.method = calls[i].payload.method

C21_Witness ==
  \E i \in CallIds :
    /\ calls[i].pc = "fetch"
    /\ Len(calls[i].request.body) = 5
    /\ calls[i].request.body[4].key = "hash"
    /\ calls[i].request.body[5] = Entry("view_type", "popup")
    /\ calls[i].request.url = clients[calls[i].client].base_url \o PurchasePath

\* C22: buildTransactionPayload called with params that carry no amount
\* throws the validation error "amount is required" and returns no payload.
C22_AmountRequired ==
  (built.op = "buildTransactionPayload" /\ Get(built.params, "amount") = Undefined) =>
    /\ built.result.outcome = "threw"
    /\ built.result.error = Error("amount is required")
    /\ built.result.payload = NoPayload

\* C23: execute invocations in flight together do not interact.  In every
\* state each invocation that passed the guard has sent exactly the entries
\* of its own payload to its own payload's url, has called fetch once, and,
\* once settled, holds the classification of its own response under its own
\* options; and no step of one invocation changes another invocation.
OwnRequest(call) ==
  /\ call.fetches = 1
  /\ call.request.url = call.payload.url
  /\ call.request.method = call.payload.method
  /\ Len(call.request.body) = Len(call.payload.fields)
  /\ \A k \in 1..Len(call.payload.fields) :
       /\ call.request.body[k].key = call.payload.fields[k].key
       /\ Str(call.request.body[k].value) = call.payload.fields[k].value

OwnClassification(call) ==
  LET response == call.response
      optIn == Get(call.options, "allowHtml") = Bool(TRUE)
  IN /\ call.pc = "returned" =>
          /\ response.status \in 200..299
          /\ call.error = NoError
          /\ IF DeclaresJson(response) THEN call.value = JsonParse(response.body)
             ELSE IF DeclaresHtml(response)
                  THEN optIn /\ call.value = Str(response.body)
                  ELSE call.value = (IF IsJson(response.body)
                                     THEN JsonParse(response.body)
                                     ELSE Str(response.body))
     /\ call.pc = "threw" =>
          /\ call.value = Undefined
          /\ \/ call.response = NoResponse /\ call.error = Error(FetchFailed)
             \/ /\ response # NoResponse
                /\ response.status \notin 200..299
                /\ call.error = Error("HTTP error! status: " \o NatToStr(response.status))
             \/ /\ response.status \in 200..299
                /\ DeclaresJson(response)
                /\ ~IsJson(response.body)
                /\ call.error = Error(JsonSyntaxError)
             \/ /\ response.status \in 200..299
                /\ ~DeclaresJson(response)
                /\ DeclaresHtml(response)
                /\ ~optIn
                /\ call.error = Error(HtmlMessage)
             \/ /\ response.status \in 200..299
                /\ ~DeclaresJson(response)
                /\ ~DeclaresHtml(response)
                /\ ~IsJson(response.body)
                /\ call.error \in {Error(UnexpectedMessage(ContentType(response))),
                                   Error(BodyUnusable)}

C23_EachCallOnItsOwn ==
  \A i \in DOMAIN calls :
    /\ calls[i].pc = "idle" => calls[i] = Idle
    /\ (calls[i].pc # "idle" /\ StoppedByGuard(calls[i])) =>
         /\ calls[i].pc = "threw"
         /\ calls[i].fetches = 0
         /\ calls[i].request = NoRequest
         /\ calls[i].error = Error(AbapayMessage)
    /\ (calls[i].pc # "idle" /\ ~StoppedByGuard(calls[i])) =>
         /\ OwnRequest(calls[i])
         /\ OwnClassification(calls[i])

C23_StepOfOneCall ==
  \A i, j \in DOMAIN calls :
    (i # j /\ calls'[i] # calls[i]) => calls'[j] = calls[j]

C23_ConcurrentCallsIndependent ==
  []C23_EachCallOnItsOwn /\ [][C23_StepOfOneCall]_vars

C23_Witness ==
  /\ calls[1].pc = "fetch"
  /\ calls[2].pc = "json"
  /\ calls[1].client = calls[2].client
  /\ calls[1].payload # calls[2].payload
  /\ calls[1].options # calls[2].options

\* C24: an execute invocation ends in exactly one of two outcomes.  A returned
\* invocation holds a value read from a 2xx response and no error; a thrown
\* one holds an error and no value; a rejected fetch ends in a throw of the
\* transport's error, never in a return; a settled outcome does not change;
\* and an invocation whose fetch has resolved does not stay suspended: it
\* goes on to return or to throw.
C24_OneOutcome ==
  \A i \in CallIds :
    LET call == calls[i]
    IN /\ call.pc = "returned" =>
            /\ call.error = NoError
            /\ call.value # Undefined
            /\ call.response # NoResponse
            /\ call.response.status \in 200..299
       /\ call.pc = "threw" =>
            /\ call.error # NoError
            /\ call.value = Undefined
       /\ (call.fetches = 1 /\ call.response = NoResponse) =>
            /\ call.pc \in {"fetch", "threw"}
            /\ call.pc = "threw" => call.error = Error(FetchFailed)

C24_OutcomeIsFinal ==
  \A i \in CallIds :
    calls[i].pc \in {"returned", "threw"} => calls'[i] \in {calls[i], Idle}

C24_ReturnsOrRaises ==
  /\ []C24_OneOutcome
  /\ [][C24_OutcomeIsFinal]_vars
  /\ \A i \in CallIds :
       (calls[i].pc \in {"json", "text", "try_json", "catch_text"})
         ~> (calls[i].pc \in {"returned", "threw"})

C24_Witness ==
  \E i \in CallIds :
    /\ calls[i].pc = "threw"
    /\ calls[i].fetches = 1
    /\ calls[i].response = NoResponse
    /\ calls[i].error = Error(FetchFailed)

\* C25: in the revision that accepts a client_factory, a client constructed
\* with a function holds as _client the value that function returns for the
\* client, a client constructed without one holds a default transport with a
\* post function, a constructed client's transport never changes, and every
\* call posts through the transport its client holds.
C25_TransportOfClient ==
  /\ \A c \in ClientIds :
       clients[c] # NotConstructed =>
         /\ clients[c].client_factory.kind = "function" =>
              clients[c]._client = CallFactory(clients[c].client_factory, clients[c])
         /\ clients[c].client_factory = ReturnsBaseUrl =>
              clients[c]._client = Str(Credentials[c].base_url)
         /\ clients[c].client_factory = Undefined =>
              /\ clients[c]._client.kind = "object"
              /\ HasKey(clients[c]._client.val, "post")
              /\ Get(clients[c]._client.val, "post").kind = "function"
  /\ \A i \in CallIds :
       calls[i].pc # "idle" =>
         /\ clients[calls[i].client] # NotConstructed
         /\ calls[i].transport = clients[calls[i].client]._client

C25_TransportSetOnce ==
  \A c \in ClientIds : clients[c] # NotConstructed => clients'[c] = clients[c]

C25_TransportFromFactory ==
  []C25_TransportOfClient /\ [][C25_TransportSetOnce]_vars

C25_Witness ==
  /\ clients[2].client_factory = ReturnsBaseUrl
  /\ clients[2]._client = Str("http://example.com")
  /\ clients[1].client_factory = Undefined
  /\ calls[1].pc = "returned"
  /\ calls[1].client = 1
  /\ calls[1].transport = clients[1]._client

\* C26: the status check of execute precedes the classification by content
\* type.  An invocation answered with a status outside 200..299 has thrown
\* the HTTP error naming that status, whatever the content type and whatever
\* allowHtml is: it holds no value, has not read the body, and its error is
\* neither the HTML error nor the unexpected-content-type error.
C26_StatusBeforeContentType ==
  \A i \in CallIds :
    LET call == calls[i]
    IN (call.response # NoResponse /\ call.response.status \notin 200..299) =>
         /\ call.pc = "threw"
         /\ call.error = Error("HTTP error! status: " \o NatToStr(call.response.status))
         /\ call.error # Error(HtmlMessage)
         /\ call.error # Error(UnexpectedMessage(ContentType(call.response)))
         /\ call.value = Undefined
         /\ ~call.bodyUsed

C26_Witness ==
  \E i \in CallIds :
    /\ calls[i].pc = "threw"
    /\ calls[i].response.status = 500
    /\ DeclaresHtml(calls[i].response)
    /\ Get(calls[i].options, "allowHtml") = Bool(TRUE)
    /\ calls[i].error = Error("HTTP error! status: 500")

\* C27: the signature of a create-transaction, check-transaction or
\* list-transactions payload can be recomputed from its fields alone.  The
\* values stored before the hash key are strings, they are the signed
\* strings in the signed order, create_hash of them is the hash, and the only
\* key that can follow hash is view_type.
KeyIndex(obj, k) == CHOOSE i \in 1..Len(obj) : obj[i].key = k

BeforeHash(fields) == SubSeq(fields, 1, KeyIndex(fields, "hash") - 1)

StoredStrings(entries) == [i \in 1..Len(entries) |-> entries[i].value.val]

C27_HashRecomputableFromFields ==
  (built.op \in HmacBuilders /\ built.result.outcome = "returned") =>
    /\ HasKey(BuiltFields, "hash")
    /\ \A i \in 1..Len(BeforeHash(BuiltFields)) :
         BeforeHash(BuiltFields)[i].value.kind = "string"
    /\ StoredStrings(BeforeHash(BuiltFields)) = BuiltSigned
    /\ Get(BuiltFields, "hash")
         = Str(create_hash(BuiltClient, StoredStrings(BeforeHash(BuiltFields))))
    /\ BuiltPayload.hash = Get(BuiltFields, "hash")
    /\ \A i \in (KeyIndex(BuiltFields, "hash") + 1)..Len(BuiltFields) :
         BuiltFields[i].key = "view_type"

C27_Witness ==
  /\ built.op = "buildTransactionPayload"
  /\ built.result.outcome = "returned"
  /\ Get(built.params, "type") = Str("pre-auth")
  /\ Get(built.params, "view_type") = Str("popup")
  /\ Keys(BuiltFields) = <<"req_time", "merchant_id", "type", "hash", "view_type">>

\* C28: the signature depends on the concatenated string only, not on where
\* one value ends and the next begins.  A second build by the same method on
\* the same client at the same clock reading, with other values under the
\* same keys, whose signed values concatenate to the same string, receives
\* the same signature, also when its fields differ.
BodyFor(params) ==
  CASE built.op = "buildTransactionPayload" -> TransactionBody(params)
    [] built.op = "buildCheckTransactionPayload" ->
         CheckTransactionBody(Get(params, "tran_id"))
    [] built.op = "buildTransactionListPayload" -> TransactionListBody(params)

ValuesFor(key) ==
  CASE built.op = "buildTransactionPayload" -> TransactionValues(key)
    [] built.op = "buildCheckTransactionPayload" -> TranIds
    [] built.op = "buildTransactionListPayload" -> ListValues(key)

OtherValues(params) ==
  LET all == UNION {ValuesFor(params[i].key) : i \in 1..Len(params)}
  IN { [i \in 1..Len(params) |-> Entry(params[i].key, f[i])] :
         f \in {g \in [1..Len(params) -> all] :
                  \A i \in 1..Len(params) : g[i] \in ValuesFor(params[i].key)} }

C28_SameConcatenationSameHash ==
  (built.op \in HmacBuilders /\ built.result.outcome = "returned") =>
    \A other \in OtherValues(built.params) :
      Concatenation(SignedValues(BuiltClient, BodyFor(other), built.date))
          = Concatenation(BuiltSigned)
        => Rebuild(other).payload.hash = BuiltPayload.hash

C28_Witness ==
  /\ built.op = "buildTransactionPayload"
  /\ built.params = <<Entry("tran_id", Str("A1")), Entry("amount", Num(2))>>
  /\ LET other == <<Entry("tran_id", Str("A")), Entry("amount", Str("12"))>>
     IN /\ other \in OtherValues(built.params)
        /\ Rebuild(other).payload.hash = BuiltPayload.hash
        /\ Get(Rebuild(other).payload.fields, "tran_id") # Get(BuiltFields, "tran_id")
        /\ Get(Rebuild(other).payload.fields, "amount") # Get(BuiltFields, "amount")

\* C29: trimming precedes the filter, and the filter drops null and undefined
\* only.  A firstname, lastname, email or phone given as an empty or
\* whitespace-only string is kept in fields under its key with the value ""
\* and puts the empty string at its place in the signed sequence; a parameter
\* given as 0, false or "" is kept in fields as "0", "false" or "".
Falsy == {Num(0), Bool(FALSE), Str("")}

FalsyText(v) ==
  CASE v = Num(0) -> "0"
    [] v = Bool(FALSE) -> "false"
    [] v = Str("") -> ""

SignedKeysOf(op) ==
  CASE op = "buildTransactionPayload" ->
         {TransactionSigned[i] : i \in DOMAIN TransactionSigned}
    [] op = "buildCheckTransactionPayload" -> {"tran_id"}
    [] op = "buildTransactionListPayload" -> {ListSigned[i] : i \in DOMAIN ListSigned}

C29_TrimBeforeFilter ==
  (built.op \in HmacBuilders /\ built.result.outcome = "returned") =>
    /\ Len(BuiltSigned) = Len(BeforeHash(BuiltFields))
    /\ \A k \in TrimmedKeys :
         ( /\ built.op = "buildTransactionPayload"
           /\ Get(built.params, k).kind = "string"
           /\ AllWhiteSpace(Get(built.params, k).val) ) =>
             /\ HasKey(BuiltFields, k)
             /\ Get(BuiltFields, k) = Str("")
             /\ KeyIndex(BuiltFields, k) < KeyIndex(BuiltFields, "hash")
             /\ BuiltSigned[KeyIndex(BuiltFields, k)] = ""
    /\ \A k \in SignedKeysOf(built.op) :
         Get(built.params, k) \in Falsy =>
           /\ HasKey(BuiltFields, k)
           /\ Get(BuiltFields, k) = Str(FalsyText(Get(built.params, k)))
           /\ BuiltSigned[KeyIndex(BuiltFields, k)] = FalsyText(Get(built.params, k))

C29_Witness ==
  /\ built.op = "buildTransactionPayload"
  /\ built.params = <<Entry("shipping", Num(0)), Entry("email", Str("\t\n"))>>
  /\ BuiltFields[3] = Entry("shipping", Str("0"))
  /\ BuiltFields[4] = Entry("email", Str(""))
  /\ BuiltSigned[4] = ""

\* C30: the two revisions of the create-transaction builder agree on their
\* common parameters.  For a create_transaction call of the older revision
\* whose params hold only tran_id, amount, firstname, lastname, email, phone,
\* payment_option, return_url, return_deeplink and currency, the values it
\* signs are, as text and in order, the values buildTransactionPayload signs
\* for the same credentials, params and timestamp, and the hash in its form
\* is the hash of that payload.
CommonKeys ==
  { "tran_id", "amount", "firstname", "lastname", "email", "phone", "payment_option",
    "return_url", "return_deeplink", "currency" }

SignedText(values) == [k \in 1..Len(values) |-> JoinText(values[k])]

C30_RevisionsAgree ==
  \A i \in CallIds :
    LET call == calls[i]
        newer == buildTransactionPayload(Credentials[call.client], call.params, call.date)
    IN ( /\ call.op = "create_transaction"
         /\ \A k \in 1..Len(call.params) : call.params[k].key \in CommonKeys ) =>
         /\ SignedText(LegacySignedValues(clients[call.client],
                                          create_transaction_body(call.params), call.date))
              = SignedValues(Credentials[call.client], TransactionBody(call.params), call.date)
         /\ HasKey(call.data, "hash")
         /\ Str(Get(call.data, "hash")) = newer.payload.hash

C30_Witness ==
  \E i \in CallIds :
    /\ calls[i].op = "create_transaction"
    /\ calls[i].params = <<Entry("currency", Str("USD")), Entry("return_deeplink", Deeplink)>>
    /\ Keys(calls[i].data) = <<"req_time", "merchant_id", "return_deeplink", "currency", "hash">>
    /\ Str(Get(calls[i].data, "hash"))
         = buildTransactionPayload(Credentials[calls[i].client], calls[i].params,
                                   calls[i].date).payload.hash

====
